---- MODULE Spec2Model ----
(***************************************************************************)
(* Propensity engine: identity resolution (get_or_create_company), the     *)
(* signal_history store (save_signal_history / upsert), the scoring engine *)
(* (calculate_score, score_company, score_all) and the contact triage      *)
(* (run_progressive_enrichment).                                           *)
(*                                                                         *)
(* Numbers.  Python floats are modelled as exact fixed-point integers:     *)
(*   component scores        plain integers                                *)
(*   weights, macro modifier hundredths  (0.25 -> 25, 1.1 -> 110)          *)
(*   base score              hundredths  (74.25 -> 7425)                   *)
(*   final score             ten-thousandths (81.675 -> 816750)            *)
(*   rounded values          tenths      (81.7 -> 817)                     *)
(* round(x, 1) is round-half-even on the exact value.                      *)
(***************************************************************************)
EXTENDS Integers, Sequences, FiniteSets, TLC

VARIABLES
    \* ---- scoring engine (calculate_score / _save_score)
    pcS,            \* position of the scoring run: start, scored, saved; tier, classified
    weights,        \* settings.weights of the engine
    signals,        \* the SignalScores handed to calculate_score
    result,         \* the dict calculate_score returned (NoResult before the call)
    probe,          \* a direct call of _classify_tier: [score, tier]
    engine,         \* what ScoringEngine.__init__ did: the warning logged, an exception raised
    \* ---- the store
    company_master, \* rows of table company_master
    signal_history, \* rows of table signal_history
    today,          \* date.today(), as a day number
    \* ---- normalizer (_normalize_company_name on two raw names)
    pcN,            \* start, done
    normIn,         \* the two raw names
    normOut,        \* the two normalized keys
    \* ---- collectors resolving a company and appending its signal
    coll,           \* per collector: position and locals of its current call
    callsMade,      \* calls of get_or_create_company started so far
    returned,       \* every record get_or_create_company has returned so far
    \* ---- signal appends racing with a scoring pass
    appendLog,      \* the save_signal_history calls made so far, in order
    scorer,         \* the score_company call in progress: position and locals
    \* ---- score_all
    pcB,            \* start, loop, done, raised
    batch,          \* companies = db.query("company_master", limit=limit): the ids
    idx,            \* index in batch of the company the loop scores next
    results,        \* the results list
    threw,          \* indices of batch whose score_company raised
    \* ---- contact triage (run_progressive_enrichment)
    pcT,            \* v3: ready (between passes), phase1, phase2; v2: v2ready, v2loop
    runLimit,       \* the limit argument of the pass in progress
    newCount,       \* len(new_companies) of the pass in progress
    companies,      \* the list the current phase iterates over
    pos,            \* index in companies of the company being processed
    search,         \* the search_company call in progress: position and locals
    passes,         \* passes of run_progressive_enrichment completed
    replaced,       \* every overwrite of a stored contact so far
    \* ---- macro modifier (MacroPipeline.get_macro_modifier)
    pcM,            \* start, done
    freight_data,   \* what _fetch_series returned: Null or the observations
    modifier,       \* the modifier returned, in hundredths (0 before the call)
    \* ---- title classifier (score_title of the v3 and v2 scripts)
    pcL,            \* start, done
    titleIn,        \* the title handed to score_title
    titleScore,     \* what score_title returned: [v3, v2]
    \* ---- the triage search (search_company of v3, search_company_contacts of v2)
    pcQ,            \* off, running, returned
    call,           \* the call: the script and, for v2, the industry argument
    sq,             \* the locals of the loop: next title, best_contact, best_score, searches
    hist,           \* what the requests of the call asked for and what they showed
    answer,         \* the value the call returned (Null before, and for None)
    \* ---- the run-all entry point (run_all_pipelines.py main)
    pcR,            \* off, start, validated, collected, done, exited
    config,         \* settings.validate(): database, gemini and FRED configured
    fred,           \* how the macro pipeline got its series: none, real, mock, raised
    pipeline_results, \* the results dict of run_pipelines: pipelines run, macro_modifier
    exit_code,      \* the exit status of the process (Null while it runs)
    \* ---- the snapshot write of a scoring pass and its retries (upsert under @retry)
    pcW,            \* off, idle (no write in progress), saving
    attempts,       \* attempts of the current write made so far
    write,          \* the write in progress: company, signals read (Null when none)
    errlog          \* companies whose snapshot write _save_score logged as failed

\* SQL NULL / Python None is the empty tuple, a present value v is <<v>>
Null == <<>>
Some(v) == <<v>>

scoreVars == <<pcS, weights, signals, result, probe, engine>>
storeVars == <<company_master, signal_history, today>>
normVars == <<pcN, normIn, normOut>>
resolveVars == <<coll, callsMade, returned>>

signalVars == <<appendLog, scorer>>

batchVars == <<pcB, batch, idx, results, threw>>

triageVars == <<pcT, runLimit, newCount, companies, pos, search, passes, replaced>>

macroVars == <<pcM, freight_data, modifier>>

titleVars == <<pcL, titleIn, titleScore>>

searchVars == <<pcQ, call, sq, hist, answer>>

runVars == <<pcR, config, fred, pipeline_results, exit_code>>

retryVars == <<pcW, attempts, write, errlog>>

vars ==
    <<scoreVars, storeVars, normVars, resolveVars, signalVars, batchVars, triageVars,
      macroVars, titleVars, searchVars, runVars, retryVars>>

\* the variables a specification leaves alone besides the store
notScoreVars ==
    <<normVars, resolveVars, signalVars, batchVars, triageVars, macroVars, titleVars, searchVars,
     runVars, retryVars>>
notNormVars ==
    <<scoreVars, resolveVars, signalVars, batchVars, triageVars, macroVars, titleVars, searchVars,
     runVars, retryVars>>
notResolveVars ==
    <<scoreVars, normVars, signalVars, batchVars, triageVars, macroVars, titleVars, searchVars,
     runVars, retryVars>>
notSignalVars ==
    <<scoreVars, normVars, resolveVars, batchVars, triageVars, macroVars, titleVars, searchVars,
     runVars, retryVars>>
notBatchVars ==
    <<scoreVars, normVars, resolveVars, signalVars, triageVars, macroVars, titleVars, searchVars,
     runVars, retryVars>>
notTriageVars ==
    <<scoreVars, normVars, resolveVars, signalVars, batchVars, macroVars, titleVars, searchVars,
     runVars, retryVars>>
notMacroVars ==
    <<scoreVars, normVars, resolveVars, signalVars, batchVars, triageVars, titleVars, searchVars,
     runVars, retryVars>>
notTitleVars ==
    <<scoreVars, normVars, resolveVars, signalVars, batchVars, triageVars, macroVars, searchVars,
     runVars, retryVars>>
notSearchVars ==
    <<scoreVars, normVars, resolveVars, signalVars, batchVars, triageVars, macroVars, titleVars,
     runVars, retryVars>>
notRunVars ==
    <<normVars, resolveVars, signalVars, triageVars, titleVars, searchVars, retryVars>>
notRetryVars ==
    <<scoreVars, normVars, resolveVars, signalVars, triageVars, macroVars, titleVars,
      searchVars, runVars>>

(***************************************************************************)
(* Bounds of the model                                                     *)
(***************************************************************************)
\* how far a defensive input lies outside [0,100]
MaxOver == 50

\* the day number of the first day of the run
FirstDay == 1

\* collectors that run concurrently
NumCollectors == 2

\* calls of get_or_create_company made in a run, over all collectors
MaxCalls == 3

\* organizations in company_master when signals are appended and scored
NumOrgs == 2

\* save_signal_history calls made in a run
MaxAppends == 3

\* days a run can span (date.today() moves on at midnight)
MaxDays == 2

\* organizations in company_master when score_all runs
BatchOrgs == 5

\* organizations in company_master when the contact triage runs
TriageOrgs == 2

\* passes of run_progressive_enrichment in a run
MaxPasses == 2

\* the greatest limit a pass is started with
MaxLimit == 2

\* LinkedIn items in the response to one search request
MaxResults == 2

\* observations in the freight series _fetch_series returns
MaxObs == 7

(***************************************************************************)
(* Arithmetic helpers                                                      *)
(***************************************************************************)
\* round(x / d) to the nearest integer, ties to even: Python's round() on the
\* exact value (d is even and positive wherever this is used)
RoundHalfEven(x, d) ==
    LET q == x \div d
        r == x % d
    IN  IF 2 * r > d THEN q + 1
        ELSE IF 2 * r < d THEN q
        ELSE IF q % 2 = 0 THEN q ELSE q + 1

Min(a, b) == IF a < b THEN a ELSE b
Max(a, b) == IF a > b THEN a ELSE b

\* 100 at the scale of the final score (ten-thousandths)
HundredFinal == 1000000

(***************************************************************************)
(* Scoring engine                                                          *)
(***************************************************************************)
\* ScoringWeights defaults (hundredths)
DefaultWeights ==
    [expansion |-> 25, distress |-> 20, job_velocity |-> 20,
     sentiment |-> 15, market_tightness |-> 10, macro |-> 10]

\* ScoringWeights.validate_weights: abs(total - 1.0) < 0.001
validate_weights(w) ==
    LET total == w.expansion + w.distress + w.job_velocity
                 + w.sentiment + w.market_tightness + w.macro
    IN  (total - 100) * 10 < 1 /\ (100 - total) * 10 < 1

\* ScoringEngine.__init__ that refuses weights that do not sum to 1.0
engine_init_strict(w) ==
    [weights_warning |-> ~validate_weights(w), raised |-> ~validate_weights(w)]

\* ScoringEngine.__init__: a warning when the weights do not validate, then
\* the engine is initialized; nothing is raised
engine_init(w) ==
    [weights_warning |-> ~validate_weights(w), raised |-> FALSE]

\* _classify_tier with strict comparisons (a boundary slip)
classify_tier_strict(score) ==
    IF score > 800000 THEN "hot"
    ELSE IF score > 600000 THEN "warm"
    ELSE IF score > 400000 THEN "cool"
    ELSE "cold"

\* ScoringEngine._classify_tier, on a score in ten-thousandths
classify_tier(score) ==
    IF score >= 800000 THEN "hot"
    ELSE IF score >= 600000 THEN "warm"
    ELSE IF score >= 400000 THEN "cool"
    ELSE "cold"

\* the base score with turnover weighted by the market_tightness slot
base_score_wrong_slot(s, w) ==
    s.expansion * w.expansion
    + s.distress * w.distress
    + s.job_velocity * w.job_velocity
    + s.sentiment * w.sentiment
    + s.market_tightness * w.market_tightness
    + s.turnover * w.market_tightness

\* the weighted base score of calculate_score (hundredths)
base_score(s, w) ==
    s.expansion * w.expansion
    + s.distress * w.distress
    + s.job_velocity * w.job_velocity
    + s.sentiment * w.sentiment
    + s.market_tightness * w.market_tightness
    + s.turnover * w.macro

\* the final score without the clamp
final_score_unclamped(s, w) ==
    base_score(s, w) * s.macro_modifier

\* final_score = min(max(base_score * macro_modifier, 0), 100) (ten-thousandths)
final_score(s, w) ==
    Min(Max(base_score(s, w) * s.macro_modifier, 0), HundredFinal)

\* ScoringEngine.calculate_score: the returned dict.  propensity_score,
\* base_score and the breakdown are rounded to one decimal (tenths); the tier is
\* classified from the unrounded clamped score.
calculate_score(s, w) ==
    [propensity_score |-> RoundHalfEven(final_score(s, w), 1000),
     score_tier       |-> classify_tier(final_score(s, w)),
     base_score       |-> RoundHalfEven(base_score(s, w), 10),
     macro_modifier   |-> s.macro_modifier,
     breakdown        |->
        [expansion        |-> RoundHalfEven(s.expansion * w.expansion, 10),
         distress         |-> RoundHalfEven(s.distress * w.distress, 10),
         job_velocity     |-> RoundHalfEven(s.job_velocity * w.job_velocity, 10),
         sentiment        |-> RoundHalfEven(s.sentiment * w.sentiment, 10),
         market_tightness |-> RoundHalfEven(s.market_tightness * w.market_tightness, 10),
         turnover         |-> RoundHalfEven(s.turnover * w.macro, 10)]]

(***************************************************************************)
(* The store: table signal_history, unique on (company_id, record_date)    *)
(***************************************************************************)
\* the nullable columns of signal_history that the program writes
SignalColumns ==
    {"expansion_score", "distress_score", "sentiment_score",
     "job_velocity_score", "turnover_score", "market_tightness_score",
     "macro_modifier", "propensity_score", "score_tier",
     "inventory_turnover_ratio", "glassdoor_rating", "glassdoor_review_count"}

\* the rows of `rows` that conflict with `data` on (company_id, record_date)
conflicting(rows, data) ==
    {r \in rows : r.company_id = data.company_id /\ r.record_date = data.record_date}

\* the serial id the table gives the next inserted row
next_rid(rows) ==
    IF rows = {} THEN 1
    ELSE 1 + CHOOSE m \in {r.rid : r \in rows} : \A r \in rows : r.rid <= m

\* a plain insert in place of the upsert: every call adds a row
upsert_always_inserts(rows, data) ==
    rows \cup
    {[rid |-> next_rid(rows),
      company_id |-> data.company_id,
      record_date |-> data.record_date,
      f |-> [c \in SignalColumns |->
               IF c \in DOMAIN data.f THEN data.f[c] ELSE Null]]}

\* an upsert that replaces the whole row: columns absent from the payload
\* fall back to NULL
upsert_replaces_row(rows, data) ==
    LET hit == conflicting(rows, data)
    IN  (rows \ hit) \cup
        {[rid |-> IF hit = {} THEN next_rid(rows) ELSE (CHOOSE r \in hit : TRUE).rid,
          company_id |-> data.company_id,
          record_date |-> data.record_date,
          f |-> [c \in SignalColumns |->
                   IF c \in DOMAIN data.f THEN data.f[c] ELSE Null]]}

\* DatabaseConnection.upsert on signal_history with
\* on_conflict="company_id,record_date": one atomic INSERT ... ON CONFLICT DO
\* UPDATE that sets exactly the columns of the payload.  data.f is the payload's
\* nullable columns (a function on a subset of SignalColumns).
upsert(rows, data) ==
    LET hit == conflicting(rows, data)
    IN  IF hit = {}
        THEN rows \cup
             {[rid |-> next_rid(rows),
               company_id |-> data.company_id,
               record_date |-> data.record_date,
               f |-> [c \in SignalColumns |->
                        IF c \in DOMAIN data.f THEN data.f[c] ELSE Null]]}
        ELSE (rows \ hit) \cup
             {[r EXCEPT !.f = [c \in SignalColumns |->
                        IF c \in DOMAIN data.f THEN data.f[c] ELSE r.f[c]]]
              : r \in hit}

\* DatabaseConnection.save_signal_history(company_id, signals):
\* data = {"company_id": company_id, **signals}, then upsert.  `sig` is
\* [record_date, f].
save_signal_history(rows, company_id, sig) ==
    upsert(rows, [company_id |-> company_id, record_date |-> sig.record_date, f |-> sig.f])

\* a payload that stores the weighted contributions of the breakdown in the
\* component columns instead of the raw component scores
save_score_payload_weighted(res, s, day) ==
    [record_date |-> day,
     f |-> [c \in {"propensity_score", "score_tier", "expansion_score",
                   "distress_score", "sentiment_score", "job_velocity_score",
                   "turnover_score", "market_tightness_score", "macro_modifier"} |->
              CASE c = "propensity_score"       -> Some(res.propensity_score \div 10)
                [] c = "score_tier"             -> Some(res.score_tier)
                [] c = "expansion_score"        -> Some(res.breakdown.expansion \div 10)
                [] c = "distress_score"         -> Some(res.breakdown.distress \div 10)
                [] c = "sentiment_score"        -> Some(res.breakdown.sentiment \div 10)
                [] c = "job_velocity_score"     -> Some(res.breakdown.job_velocity \div 10)
                [] c = "turnover_score"         -> Some(res.breakdown.turnover \div 10)
                [] c = "market_tightness_score" -> Some(res.breakdown.market_tightness \div 10)
                [] c = "macro_modifier"         -> Some(s.macro_modifier)]]

\* the payload ScoringEngine._save_score builds from the result and the signals
save_score_payload(res, s, day) ==
    [record_date |-> day,
     f |-> [c \in {"propensity_score", "score_tier", "expansion_score",
                   "distress_score", "sentiment_score", "job_velocity_score",
                   "turnover_score", "market_tightness_score", "macro_modifier"} |->
              CASE c = "propensity_score"       -> Some(res.propensity_score \div 10)
                [] c = "score_tier"             -> Some(res.score_tier)
                [] c = "expansion_score"        -> Some(s.expansion)
                [] c = "distress_score"         -> Some(s.distress)
                [] c = "sentiment_score"        -> Some(s.sentiment)
                [] c = "job_velocity_score"     -> Some(s.job_velocity)
                [] c = "turnover_score"         -> Some(s.turnover)
                [] c = "market_tightness_score" -> Some(s.market_tightness)
                [] c = "macro_modifier"         -> Some(s.macro_modifier)]]

(***************************************************************************)
(* Normalizer: DatabaseConnection._normalize_company_name                  *)
(* A string is a sequence of one-character strings.                        *)
(***************************************************************************)
UpperCase == <<"A", "B", "C", "D", "E", "F", "G", "H", "I", "J", "K", "L", "M", "N", "O", "P", "Q", "R", "S", "T", "U", "V", "W", "X", "Y", "Z">>
LowerCase == <<"a", "b", "c", "d", "e", "f", "g", "h", "i", "j", "k", "l", "m", "n", "o", "p", "q", "r", "s", "t", "u", "v", "w", "x", "y", "z">>

\* str.lower() on one character
lower_char(c) ==
    IF \E i \in 1..Len(UpperCase) : UpperCase[i] = c
    THEN LowerCase[CHOOSE i \in 1..Len(UpperCase) : UpperCase[i] = c]
    ELSE c

\* str.lower()
lower(str) == [i \in 1..Len(str) |-> lower_char(str[i])]

\* str.strip(): drop leading and trailing whitespace
RECURSIVE lstrip(_)
lstrip(str) ==
    IF str # <<>> /\ Head(str) = " " THEN lstrip(Tail(str)) ELSE str

RECURSIVE rstrip(_)
rstrip(str) ==
    IF str # <<>> /\ str[Len(str)] = " " THEN rstrip(SubSeq(str, 1, Len(str) - 1)) ELSE str

strip(str) == rstrip(lstrip(str))

\* str.endswith(suffix)
endswith(str, suffix) ==
    /\ Len(suffix) <= Len(str)
    /\ SubSeq(str, Len(str) - Len(suffix) + 1, Len(str)) = suffix

\* str.replace(ch, ""): drop every occurrence of the characters in `chars`
remove_chars(str, chars) == SelectSeq(str, LAMBDA c : c \notin chars)

\* the suffixes list, in the order of the source
suffixes ==
    <<<<" ", "l", "l", "c">>,
      <<" ", "i", "n", "c">>,
      <<" ", "c", "o", "r", "p">>,
      <<" ", "c", "o", "r", "p", "o", "r", "a", "t", "i", "o", "n">>,
      <<" ", "c", "o">>,
      <<" ", "c", "o", "m", "p", "a", "n", "y">>,
      <<" ", "l", "t", "d">>,
      <<" ", "l", "i", "m", "i", "t", "e", "d">>,
      <<" ", "l", "p">>,
      <<" ", "l", "l", "p">>,
      <<" ", "p", "l", "l", "c">>,
      <<" ", "p", "c">>>>

\* for suffix in suffixes[i..]: if normalized.endswith(suffix): cut it off
RECURSIVE strip_suffixes(_, _)
strip_suffixes(str, i) ==
    IF i > Len(suffixes) THEN str
    ELSE IF endswith(str, suffixes[i])
         THEN strip_suffixes(SubSeq(str, 1, Len(str) - Len(suffixes[i])), i + 1)
         ELSE strip_suffixes(str, i + 1)

\* _normalize_company_name: lower and strip, cut the suffixes, then drop the
\* punctuation , . ' and strip again
normalize_company_name(name) ==
    IF name = <<>> THEN <<>>
    ELSE strip(remove_chars(strip_suffixes(strip(lower(name)), 1), {",", ".", "'"}))

(***************************************************************************)
(* Specification SpecScore: one scoring of given signals                   *)
(*   calculate_score(signals) then _save_score, or a direct _classify_tier *)
(***************************************************************************)
\* the example of scoring_engine.main (hot lead)
ExampleSignals ==
    [expansion |-> 85, distress |-> 70, job_velocity |-> 80, sentiment |-> 60,
     market_tightness |-> 75, turnover |-> 65, macro_modifier |-> 110]

\* weights that do not sum to 1.0
SkewedWeights ==
    [expansion |-> 40, distress |-> 30, job_velocity |-> 30,
     sentiment |-> 20, market_tightness |-> 20, macro |-> 30]

WeightConfigs == {DefaultWeights, SkewedWeights}

\* in-range inputs: every component 0, its example value or 100
GridSignals ==
    [expansion : {0, 85, 100}, distress : {0, 70, 100}, job_velocity : {0, 80, 100},
     sentiment : {0, 60, 100}, market_tightness : {0, 75, 100}, turnover : {0, 65, 100},
     macro_modifier : {80, 90, 95, 100, 110, 120}]

\* defensive inputs: components below 0 or above 100, modifiers outside [0.8,1.2]
DefensiveSignals ==
    [expansion : {-MaxOver, 100 + MaxOver}, distress : {-MaxOver, 100 + MaxOver},
     job_velocity : {0, 100 + MaxOver}, sentiment : {-MaxOver, 100},
     market_tightness : {0, 100 + MaxOver}, turnover : {-MaxOver, 100 + MaxOver},
     macro_modifier : {-100, 0, 110, 100 + MaxOver}]

SignalInputs == GridSignals \cup DefensiveSignals

\* scores handed to _classify_tier directly (ten-thousandths): a grid over
\* [0,100] and the values just around each threshold
TierInputs ==
    {k * 5000 : k \in 0..200}
    \cup {t + d : t \in {400000, 600000, 800000}, d \in {-10, -1, 0, 1, 10}}

\* the company the scoring run is about
ScoredCompany == 1

NoResult == [propensity_score |-> 0, score_tier |-> "none", base_score |-> 0,
             macro_modifier |-> 0,
             breakdown |-> [expansion |-> 0, distress |-> 0, job_velocity |-> 0,
                            sentiment |-> 0, market_tightness |-> 0, turnover |-> 0]]

NoProbe == [score |-> 0, tier |-> "none"]

\* either a scoring run on drawn signals and weights, or a direct call of
\* _classify_tier on a drawn score
\* the scoring engine at rest (the specifications that do not run it)
IdleScore ==
    /\ pcS = "idle"
    /\ weights = DefaultWeights
    /\ engine = engine_init(DefaultWeights)
    /\ signals = ExampleSignals
    /\ result = NoResult
    /\ probe = NoProbe

\* the normalizer at rest
IdleNorm ==
    /\ pcN = "idle"
    /\ normIn = <<>>
    /\ normOut = <<>>

\* no collector running
IdleResolve ==
    /\ coll = <<>>
    /\ callsMade = 0
    /\ returned = {}

\* no append made, no scoring pass running
IdleSignal ==
    /\ appendLog = <<>>
    /\ scorer = [pc |-> "idle", company_id |-> 0, signals |-> ExampleSignals]

\* score_all not running
IdleBatch ==
    /\ pcB = "idle"
    /\ batch = <<>>
    /\ idx = 0
    /\ results = <<>>
    /\ threw = {}

\* run_progressive_enrichment not running
NoSearch ==
    [state |-> "none", title |-> 0, best_contact |-> Null, best_score |-> 0, requests |-> 0]

\* score_title not called
IdleTitle ==
    /\ pcL = "off"
    /\ titleIn = <<>>
    /\ titleScore = [v3 |-> 0, v2 |-> 0]

IdleSearch ==
    /\ pcQ = "off"
    /\ call = Null
    /\ sq = Null
    /\ hist = Null
    /\ answer = Null

IdleRun ==
    /\ pcR = "off"
    /\ config = Null
    /\ fred = "none"
    /\ pipeline_results = Null
    /\ exit_code = Null

IdleRetry ==
    /\ pcW = "off"
    /\ attempts = 0
    /\ write = Null
    /\ errlog = <<>>

\* get_macro_modifier not running
IdleMacro ==
    /\ pcM = "off"
    /\ freight_data = Null
    /\ modifier = 0

IdleTriage ==
    /\ pcT = "off"
    /\ runLimit = 0
    /\ newCount = 0
    /\ companies = <<>>
    /\ pos = 0
    /\ search = NoSearch
    /\ passes = 0
    /\ replaced = {}

InitScore ==
    /\ IdleNorm
    /\ IdleResolve
    /\ IdleSignal
    /\ IdleBatch
    /\ IdleTriage
    /\ IdleMacro
    /\ IdleTitle
    /\ IdleSearch
    /\ IdleRun
    /\ IdleRetry
    /\ \/ /\ pcS = "start"
          /\ weights \in WeightConfigs
          /\ signals \in SignalInputs
          /\ probe = NoProbe
       \/ /\ pcS = "tier"
          /\ weights = DefaultWeights
          /\ signals = ExampleSignals
          /\ probe \in [score : TierInputs, tier : {"none"}]
    /\ result = NoResult
    /\ engine = engine_init(weights)
    /\ company_master = {}
    /\ signal_history = {}
    /\ today = FirstDay

\* result = self.calculate_score(signals)
CalculateScore ==
    /\ pcS = "start"
    /\ ~engine.raised
    /\ result' = calculate_score(signals, weights)
    /\ pcS' = "scored"
    /\ UNCHANGED <<weights, signals, probe, engine, storeVars, notScoreVars>>

\* self._save_score(company_id, result, signals)
SaveScore ==
    /\ pcS = "scored"
    /\ signal_history' =
         save_signal_history(signal_history, ScoredCompany,
                             save_score_payload(result, signals, today))
    /\ pcS' = "saved"
    /\ UNCHANGED <<weights, signals, result, probe, engine, company_master, today, notScoreVars>>

\* a direct call _classify_tier(score)
ClassifyTier ==
    /\ pcS = "tier"
    /\ probe' = [probe EXCEPT !.tier = classify_tier(probe.score)]
    /\ pcS' = "classified"
    /\ UNCHANGED <<weights, signals, result, engine, storeVars, notScoreVars>>

NextScore == CalculateScore \/ SaveScore \/ ClassifyTier

SpecScore == InitScore /\ [][NextScore]_vars

(***************************************************************************)
(* Specification SpecNormalize: _normalize_company_name on two raw names   *)
(***************************************************************************)
\* raw names: a base name in three spellings, a separator, a legal suffix in
\* three spellings, and an optional trailing full stop
NameBases == {<<"A", "c", "m", "e">>, <<"A", "C", "M", "E">>, <<"a", "c", "m", "e">>}
NameSeparators == {<<" ">>, <<",", " ">>}
NameSuffixes == {<<"I", "n", "c">>, <<"I", "N", "C">>, <<"i", "n", "c">>}
NameTails == {<<>>, <<".">>}

NameInputs ==
    {b \o sep \o suf \o t :
        b \in NameBases, sep \in NameSeparators, suf \in NameSuffixes, t \in NameTails}

\* the three variants of the specification: "Acme Inc.", "ACME, INC", "acme inc"
AcmeVariants ==
    {<<"A", "c", "m", "e", " ", "I", "n", "c", ".">>,
     <<"A", "C", "M", "E", ",", " ", "I", "N", "C">>,
     <<"a", "c", "m", "e", " ", "i", "n", "c">>}

InitNormalize ==
    /\ IdleScore
    /\ IdleBatch
    /\ IdleTriage
    /\ IdleMacro
    /\ IdleTitle
    /\ IdleSearch
    /\ IdleRun
    /\ IdleRetry
    /\ IdleResolve
    /\ IdleSignal
    /\ company_master = {}
    /\ signal_history = {}
    /\ today = FirstDay
    /\ pcN = "start"
    /\ normIn \in NameInputs \X NameInputs
    /\ normOut = <<>>

\* normalized = self._normalize_company_name(company_name), for both names
Normalize ==
    /\ pcN = "start"
    /\ normOut' = <<normalize_company_name(normIn[1]), normalize_company_name(normIn[2])>>
    /\ pcN' = "done"
    /\ UNCHANGED <<normIn, storeVars, notNormVars>>

NextNormalize == Normalize

SpecNormalize == InitNormalize /\ [][NextNormalize]_vars

\* C9: the normalizer gives "Acme Inc.", "ACME, INC" and "acme inc" one
\* identical key, wherever the punctuation stands relative to the suffix.
C9_VariantsShareKey ==
    (pcN = "done" /\ normIn[1] \in AcmeVariants /\ normIn[2] \in AcmeVariants)
        => normOut[1] = normOut[2]

(***************************************************************************)
(* Identity resolver: DatabaseConnection.get_or_create_company             *)
(***************************************************************************)
\* query("company_master", filters={"normalized_name": n, "zip_code": z}):
\* the matching rows; limit=1 returns any one of them
matching_companies(rows, n, z) ==
    {r \in rows : r.normalized_name = n /\ r.zip_code = z}

\* the id the store generates for the next company row
next_company_id(rows) ==
    IF rows = {} THEN 1
    ELSE 1 + CHOOSE m \in {r.id : r \in rows} : \A r \in rows : r.id <= m

\* the row insert("company_master", data) creates
new_company(rows, data) ==
    [id |-> next_company_id(rows),
     company_name |-> data.company_name,
     normalized_name |-> data.normalized_name,
     zip_code |-> data.zip_code,
     city |-> data.city]

\* insert("company_master", data): a plain INSERT; company_master carries no
\* uniqueness constraint on (normalized_name, zip_code)
insert_company(rows, data) == rows \cup {new_company(rows, data)}

\* the payload of InventoryPipeline._save_turnover for a turnover score
turnover_payload_of(day, score) ==
    [record_date |-> day,
     f |-> [c \in {"inventory_turnover_ratio", "turnover_score"} |->
              IF c = "inventory_turnover_ratio" THEN Some(8) ELSE Some(score)]]

\* the payload of InventoryPipeline._save_turnover in the resolver runs
turnover_payload(day) == turnover_payload_of(day, 80)

(***************************************************************************)
(* Specification SpecResolve: collectors running concurrently, each        *)
(* resolving a company (lookup, then insert on a miss) and appending a     *)
(* signal for it (_save_turnover / _save_sentiment)                        *)
(***************************************************************************)
Collectors == 1..NumCollectors

RawNames ==
    {<<"A", "c", "m", "e", " ", "I", "n", "c", ".">>,
     <<"A", "C", "M", "E", ",", " ", "I", "N", "C">>,
     <<"a", "c", "m", "e", " ", "i", "n", "c">>}

ZipCodes == {"75001", "00000"}

Cities == {Null, Some("Dallas")}

NoCompany == [id |-> 0, company_name |-> <<>>, normalized_name |-> <<>>,
              zip_code |-> "", city |-> Null]

NoData == [company_name |-> <<>>, normalized_name |-> <<>>, zip_code |-> "", city |-> Null]

InitResolve ==
    /\ IdleScore
    /\ IdleBatch
    /\ IdleTriage
    /\ IdleMacro
    /\ IdleTitle
    /\ IdleSearch
    /\ IdleRun
    /\ IdleRetry
    /\ IdleNorm
    /\ IdleSignal
    /\ company_master = {}
    /\ signal_history = {}
    /\ today = FirstDay
    /\ coll = [p \in Collectors |->
                 [pc |-> "idle", data |-> NoData, company |-> NoCompany]]
    /\ callsMade = 0
    /\ returned = {}

\* what get_or_create_company hands back to its caller, recorded in order
record_return(row, hit) ==
    returned \cup {[n |-> Cardinality(returned) + 1, id |-> row.id,
                    normalized_name |-> row.normalized_name,
                    zip_code |-> row.zip_code, hit |-> hit]}

\* get_or_create_company, lookup finds a row: return existing[0]
GetOrCreateHit(p) ==
    /\ coll[p].pc = "idle"
    /\ callsMade < MaxCalls
    /\ callsMade' = callsMade + 1
    /\ \E name \in RawNames, zip \in ZipCodes, city \in Cities :
         LET normalized == normalize_company_name(name)
             existing == matching_companies(company_master, normalized, zip)
         IN  /\ existing # {}
             /\ \E row \in existing :
                   /\ coll' = [coll EXCEPT ![p].pc = "resolved", ![p].company = row]
                   /\ returned' = record_return(row, TRUE)
    /\ UNCHANGED <<storeVars, notResolveVars>>

\* get_or_create_company, lookup finds nothing: build the row to insert
GetOrCreateMiss(p) ==
    /\ coll[p].pc = "idle"
    /\ callsMade < MaxCalls
    /\ callsMade' = callsMade + 1
    /\ \E name \in RawNames, zip \in ZipCodes, city \in Cities :
         LET normalized == normalize_company_name(name)
             existing == matching_companies(company_master, normalized, zip)
         IN  /\ existing = {}
             /\ coll' = [coll EXCEPT ![p].pc = "insert",
                                     ![p].data = [company_name |-> name,
                                                  normalized_name |-> normalized,
                                                  zip_code |-> zip, city |-> city]]
    /\ UNCHANGED <<returned, storeVars, notResolveVars>>

\* return self.insert("company_master", data)
GetOrCreateInsert(p) ==
    /\ coll[p].pc = "insert"
    /\ company_master' = insert_company(company_master, coll[p].data)
    /\ LET row == new_company(company_master, coll[p].data)
       IN  /\ coll' = [coll EXCEPT ![p].pc = "resolved", ![p].company = row]
           /\ returned' = record_return(row, FALSE)
    /\ UNCHANGED <<callsMade, signal_history, today, notResolveVars>>

\* the lookup raises after its retries: the collector's except ends the call
QueryRaises(p) ==
    /\ coll[p].pc = "idle"
    /\ callsMade < MaxCalls
    /\ callsMade' = callsMade + 1
    /\ UNCHANGED <<coll, returned, storeVars, notResolveVars>>

\* the insert raises after its retries: the collector's except ends the call
InsertRaises(p) ==
    /\ coll[p].pc = "insert"
    /\ coll' = [coll EXCEPT ![p].pc = "idle", ![p].data = NoData]
    /\ UNCHANGED <<callsMade, returned, storeVars, notResolveVars>>

\* insert returns None (the store answered without data, the row stored or
\* not): get_or_create_company returns None and `if company:` skips the append
GetOrCreateInsertNoData(p) ==
    /\ coll[p].pc = "insert"
    /\ \E stored \in BOOLEAN :
         company_master' = IF stored THEN insert_company(company_master, coll[p].data)
                           ELSE company_master
    /\ coll' = [coll EXCEPT ![p].pc = "idle", ![p].data = NoData]
    /\ UNCHANGED <<callsMade, returned, signal_history, today, notResolveVars>>

\* a collector that appends for the id it expects the insert to give, without
\* waiting for the record
CollectorSaveUnresolved(p) ==
    /\ coll[p].pc \in {"insert", "resolved"}
    /\ signal_history' =
         save_signal_history(signal_history,
             IF coll[p].pc = "resolved" THEN coll[p].company.id
             ELSE next_company_id(company_master),
             turnover_payload(today))
    /\ coll' = [coll EXCEPT ![p].pc = "idle", ![p].data = NoData, ![p].company = NoCompany]
    /\ UNCHANGED <<callsMade, returned, company_master, today, notResolveVars>>

\* if company: db.save_signal_history(company_id=company["id"], signals=...)
CollectorSave(p) ==
    /\ coll[p].pc = "resolved"
    /\ signal_history' =
         save_signal_history(signal_history, coll[p].company.id, turnover_payload(today))
    /\ coll' = [coll EXCEPT ![p].pc = "idle", ![p].data = NoData, ![p].company = NoCompany]
    /\ UNCHANGED <<callsMade, returned, company_master, today, notResolveVars>>

NextResolve ==
    \E p \in Collectors :
        \/ GetOrCreateHit(p)
        \/ GetOrCreateMiss(p)
        \/ GetOrCreateInsert(p)
        \/ QueryRaises(p)
        \/ InsertRaises(p)
        \/ GetOrCreateInsertNoData(p)
        \/ CollectorSave(p)

SpecResolve == InitResolve /\ [][NextResolve]_vars

\* the rows a step added to signal_history or changed
rows_written == signal_history' \ signal_history

\* a call of a collector ends with no record: the lookup or the insert raised,
\* or the insert returned None
EndsWithoutRecord ==
    \E p \in Collectors :
        /\ coll[p].pc \in {"idle", "insert"}
        /\ coll'[p].pc = "idle"
        /\ callsMade' > callsMade \/ coll[p].pc = "insert"

\* a step writes signal_history
AppendMade == rows_written # {}

\* C26: identity resolution completes before any signal append references its
\* id: every save_signal_history of a collector uses the id of a record
\* get_or_create_company has already returned to that collector, every
\* company_id of signal_history is the id of a company_master row, and a call
\* whose resolution returned no record appends nothing
C26_ResolveBeforeAppend ==
    /\ [](\A r \in signal_history : \E c \in company_master : c.id = r.company_id)
    /\ [][AppendMade =>
            (\E p \in Collectors :
                /\ coll[p].pc = "resolved"
                /\ coll'[p].pc = "idle"
                /\ \E e \in returned : e.id = coll[p].company.id
                /\ \E c \in company_master : c.id = coll[p].company.id
                /\ \A r \in rows_written : r.company_id = coll[p].company.id)]_vars
    /\ [][EndsWithoutRecord => signal_history' = signal_history]_vars

C26_Witness ==
    /\ signal_history # {}
    /\ Cardinality(company_master) > Cardinality({e.id : e \in returned})
    /\ \A r \in signal_history : \E e \in returned : e.id = r.company_id
    /\ \E c \in company_master : \A r \in signal_history : r.company_id # c.id


\* C1: company_master holds at most one organization per (normalized name,
\* postal code) pair, whatever the interleaving of get_or_create_company calls.
C1_OneCompanyPerKey ==
    \A r1, r2 \in company_master :
        (r1.normalized_name = r2.normalized_name /\ r1.zip_code = r2.zip_code)
            => r1.id = r2.id

\* C8: a get_or_create_company call whose lookup matches an existing
\* organization returns the record with the id every earlier resolution of that
\* (normalized name, postal code) returned.
C8_HitReturnsEarlierId ==
    \A h, e \in returned :
        (h.hit /\ e.n < h.n
         /\ e.normalized_name = h.normalized_name /\ e.zip_code = h.zip_code)
            => e.id = h.id

(***************************************************************************)
(* score_company: reading the latest snapshot                              *)
(***************************************************************************)
\* the query with ascending order: the rows of the company with the smallest
\* record_date
earliest_rows(rows, company_id) ==
    {r \in rows : /\ r.company_id = company_id
                  /\ \A q \in rows : q.company_id = company_id => r.record_date <= q.record_date}

\* query("signal_history", filters={"company_id": id}, order_by="-record_date",
\* limit=1): the rows of the company with the greatest record_date
latest_rows(rows, company_id) ==
    {r \in rows : /\ r.company_id = company_id
                  /\ \A q \in rows : q.company_id = company_id => q.record_date <= r.record_date}

\* signals_data.get(col, 0) or 0
get_or_zero(f, col) == IF f[col] = Null \/ f[col] = Some(0) THEN 0 ELSE f[col][1]

\* signals_data.get("macro_modifier", 1.0) or 1.0
get_or_one(f, col) == IF f[col] = Null \/ f[col] = Some(0) THEN 100 ELSE f[col][1]

\* the SignalScores score_company builds from a snapshot row
signals_of_row(r) ==
    [expansion        |-> get_or_zero(r.f, "expansion_score"),
     distress         |-> get_or_zero(r.f, "distress_score"),
     sentiment        |-> get_or_zero(r.f, "sentiment_score"),
     job_velocity     |-> get_or_zero(r.f, "job_velocity_score"),
     turnover         |-> get_or_zero(r.f, "turnover_score"),
     market_tightness |-> get_or_zero(r.f, "market_tightness_score"),
     macro_modifier   |-> get_or_one(r.f, "macro_modifier")]

\* the SignalScores built from signals_data = {} (no snapshot)
signals_of_nothing ==
    [expansion |-> 0, distress |-> 0, sentiment |-> 0, job_velocity |-> 0,
     turnover |-> 0, market_tightness |-> 0, macro_modifier |-> 100]

(***************************************************************************)
(* Specification SpecSignal: collectors appending partial signals and a    *)
(* scoring pass (score_company: read latest, calculate, save), interleaved *)
(***************************************************************************)
Orgs == 1..NumOrgs

\* the company_master rows of the organizations, resolved before the run
org_row(i) ==
    [id |-> i, company_name |-> <<"o", "r", "g">>, normalized_name |-> <<"o", "r", "g">>,
     zip_code |-> IF i % 2 = 1 THEN "75001" ELSE "00000", city |-> Null]

\* the payload of GlassdoorPipeline._save_sentiment
sentiment_payload(day, rating) ==
    [record_date |-> day,
     f |-> [c \in {"glassdoor_rating", "glassdoor_review_count"} |->
              IF c = "glassdoor_rating" THEN Some(rating) ELSE Some(12)]]

\* what the collectors append on a day
CollectorPayloads(day) ==
    {turnover_payload_of(day, sc) : sc \in {80}}
    \cup {sentiment_payload(day, rt) : rt \in {34}}

InitSignal ==
    /\ IdleScore
    /\ IdleBatch
    /\ IdleTriage
    /\ IdleMacro
    /\ IdleTitle
    /\ IdleSearch
    /\ IdleRun
    /\ IdleRetry
    /\ IdleNorm
    /\ IdleResolve
    /\ company_master = {org_row(i) : i \in Orgs}
    /\ signal_history = {}
    /\ today = FirstDay
    /\ appendLog = <<>>
    /\ scorer = [pc |-> "idle", company_id |-> 0, signals |-> signals_of_nothing]

\* one save_signal_history call, with its entry in the log
do_save(company_id, sig) ==
    /\ signal_history' = save_signal_history(signal_history, company_id, sig)
    /\ appendLog' = Append(appendLog,
                           [company_id |-> company_id, record_date |-> sig.record_date,
                            f |-> sig.f])

\* a collector appends its signal for a resolved organization
CollectorAppend ==
    /\ Len(appendLog) < MaxAppends
    /\ \E co \in company_master, sig \in CollectorPayloads(today) : do_save(co.id, sig)
    /\ UNCHANGED <<company_master, today, scorer, notSignalVars>>

\* score_company up to the SignalScores: get_by_id, the latest snapshot
ScoreRead ==
    /\ scorer.pc = "idle"
    /\ Len(appendLog) < MaxAppends
    /\ \E co \in company_master :
         LET latest == latest_rows(signal_history, co.id)
         IN  \/ /\ latest = {}
                /\ scorer' = [pc |-> "read", company_id |-> co.id,
                              signals |-> signals_of_nothing]
             \/ \E r \in latest :
                   scorer' = [pc |-> "read", company_id |-> co.id,
                              signals |-> signals_of_row(r)]
    /\ UNCHANGED <<appendLog, storeVars, notSignalVars>>

\* score_company from calculate_score on: the result, then _save_score
ScoreSave ==
    /\ scorer.pc = "read"
    /\ Len(appendLog) < MaxAppends
    /\ do_save(scorer.company_id,
               save_score_payload(calculate_score(scorer.signals, DefaultWeights),
                                  scorer.signals, today))
    /\ scorer' = [scorer EXCEPT !.pc = "idle"]
    /\ UNCHANGED <<company_master, today, notSignalVars>>

\* midnight passes
NextDay ==
    /\ today < FirstDay + MaxDays - 1
    /\ Len(appendLog) < MaxAppends
    /\ today' = today + 1
    /\ UNCHANGED <<company_master, signal_history, signalVars, notSignalVars>>

NextSignal == CollectorAppend \/ ScoreRead \/ ScoreSave \/ NextDay

SpecSignal == InitSignal /\ [][NextSignal]_vars

\* the logged calls that wrote to the key of row r
calls_on(r) ==
    {i \in 1..Len(appendLog) :
        appendLog[i].company_id = r.company_id /\ appendLog[i].record_date = r.record_date}

\* C6: signal_history holds at most one row per (company_id, record_date),
\* whatever the interleaving of collector appends and scoring passes; a write
\* for an existing date adds no second row.
C6_OneRowPerDate ==
    /\ \A r1, r2 \in signal_history :
          (r1.company_id = r2.company_id /\ r1.record_date = r2.record_date) => r1 = r2
    /\ Cardinality(signal_history) =
          Cardinality({<<appendLog[i].company_id, appendLog[i].record_date>> :
                          i \in 1..Len(appendLog)})

\* a key was written twice and still has its one row
C6_Witness ==
    \E r \in signal_history :
        /\ Cardinality(calls_on(r)) >= 2
        /\ \A q \in signal_history :
              (q.company_id = r.company_id /\ q.record_date = r.record_date) => q = r

\* C7: an append for an (organization, date) that already has a row sets the
\* fields present in the call and leaves every other field of that row as it
\* was, so fields absent from a second partial append keep the first's values.
C7_PartialUpdate ==
    [][Len(appendLog') = Len(appendLog) + 1 =>
        LET a == appendLog'[Len(appendLog')]
        IN  \A r \in signal_history :
                (r.company_id = a.company_id /\ r.record_date = a.record_date) =>
                    \E r2 \in signal_history' :
                        /\ r2.rid = r.rid
                        /\ r2.company_id = r.company_id
                        /\ r2.record_date = r.record_date
                        /\ \A c \in SignalColumns :
                              r2.f[c] = IF c \in DOMAIN a.f THEN a.f[c] ELSE r.f[c]
      ]_vars

\* two partial appends (turnover, then sentiment) hit one (organization,
\* date): the row holds the turnover score of the first and the rating of the
\* second
C7_Witness ==
    /\ Len(appendLog) = 2
    /\ DOMAIN appendLog[1].f = {"inventory_turnover_ratio", "turnover_score"}
    /\ DOMAIN appendLog[2].f = {"glassdoor_rating", "glassdoor_review_count"}
    /\ appendLog[1].company_id = appendLog[2].company_id
    /\ appendLog[1].record_date = appendLog[2].record_date
    /\ \E r \in signal_history :
          /\ r.company_id = appendLog[1].company_id
          /\ r.record_date = appendLog[1].record_date
          /\ r.f["turnover_score"] = appendLog[1].f["turnover_score"]
          /\ r.f["glassdoor_rating"] = appendLog[2].f["glassdoor_rating"]

(***************************************************************************)
(* Specification SpecBatch: ScoringEngine.score_all                        *)
(***************************************************************************)
\* a descending insertion that puts x ahead of the elements it ties with
insert_desc_ties_reversed(sorted, x) ==
    LET k == Cardinality({i \in 1..Len(sorted) :
                            sorted[i].propensity_score > x.propensity_score})
    IN  SubSeq(sorted, 1, k) \o <<x>> \o SubSeq(sorted, k + 1, Len(sorted))

\* results.sort(key=lambda x: x["propensity_score"], reverse=True): a stable
\* sort, descending; x goes behind every element that is not smaller
insert_desc(sorted, x) ==
    LET k == Cardinality({i \in 1..Len(sorted) :
                            sorted[i].propensity_score >= x.propensity_score})
    IN  SubSeq(sorted, 1, k) \o <<x>> \o SubSeq(sorted, k + 1, Len(sorted))

RECURSIVE sort_desc_from(_, _, _)
sort_desc_from(seq, i, sorted) ==
    IF i > Len(seq) THEN sorted
    ELSE sort_desc_from(seq, i + 1, insert_desc(sorted, seq[i]))

sort_by_score_desc(seq) == sort_desc_from(seq, 1, <<>>)

\* a snapshot row as an earlier pass or collector left it
snapshot_row(rid, company_id, day, s) ==
    [rid |-> rid, company_id |-> company_id, record_date |-> day,
     f |-> [c \in SignalColumns |->
              CASE c = "expansion_score"        -> Some(s.expansion)
                [] c = "distress_score"         -> Some(s.distress)
                [] c = "sentiment_score"        -> Some(s.sentiment)
                [] c = "job_velocity_score"     -> Some(s.job_velocity)
                [] c = "turnover_score"         -> Some(s.turnover)
                [] c = "market_tightness_score" -> Some(s.market_tightness)
                [] c = "macro_modifier"         -> Some(s.macro_modifier)
                [] OTHER                        -> Null]]

\* a row as a collector's partial append left it: the payload's columns only
partial_row(rid, company_id, sig) ==
    [rid |-> rid, company_id |-> company_id, record_date |-> sig.record_date,
     f |-> [c \in SignalColumns |-> IF c \in DOMAIN sig.f THEN sig.f[c] ELSE Null]]

\* a full snapshot two days back for every organization (macro modifier 1.2)
\* and, for the odd ones, a turnover-only row of the day before
TwoDateHistory ==
    {snapshot_row(i, i, FirstDay - 2, [ExampleSignals EXCEPT !.macro_modifier = 120])
        : i \in 1..BatchOrgs}
    \cup {partial_row(BatchOrgs + i, i, turnover_payload_of(FirstDay - 1, 40))
            : i \in {j \in 1..BatchOrgs : j % 2 = 1}}

\* the signal histories score_all starts from: none; a snapshot of the day
\* before for every organization, scores falling with the id; the same with
\* every organization on the example signals (all scores tie); a snapshot for
\* the odd organizations only; snapshots of two dates
InitialHistories ==
    {{},
     TwoDateHistory,
     {snapshot_row(i, i, FirstDay - 1,
                   [ExampleSignals EXCEPT !.expansion = 100 - 10 * i]) : i \in 1..BatchOrgs},
     {snapshot_row(i, i, FirstDay - 1, ExampleSignals) : i \in 1..BatchOrgs},
     {snapshot_row(i, i, FirstDay, [ExampleSignals EXCEPT !.macro_modifier = 80 + 10 * (i % 3)])
        : i \in {j \in 1..BatchOrgs : j % 2 = 1}}}

InitBatch ==
    /\ pcS = "idle"
    /\ weights \in WeightConfigs
    /\ signals = ExampleSignals
    /\ result = NoResult
    /\ probe = NoProbe
    /\ engine = engine_init(weights)
    /\ IdleNorm
    /\ IdleResolve
    /\ IdleSignal
    /\ IdleTriage
    /\ IdleMacro
    /\ IdleTitle
    /\ IdleSearch
    /\ IdleRun
    /\ IdleRetry
    /\ company_master = {org_row(i) : i \in 1..BatchOrgs}
    /\ signal_history \in InitialHistories
    /\ today = FirstDay
    /\ pcB = "start"
    /\ batch = <<>>
    /\ idx = 0
    /\ results = <<>>
    /\ threw = {}

\* companies = db.query("company_master", limit=limit): the first `limit`
\* rows, taken in id order
FetchCompanies ==
    /\ pcB = "start"
    /\ ~engine.raised
    /\ \E limit \in 1..BatchOrgs :
         batch' = [i \in 1..Min(limit, Cardinality(company_master)) |-> i]
    /\ idx' = 1
    /\ pcB' = "loop"
    /\ UNCHANGED <<results, threw, storeVars, notBatchVars>>

\* the query of score_all itself raises: score_all raises
FetchRaises ==
    /\ pcB = "start"
    /\ ~engine.raised
    /\ pcB' = "raised"
    /\ UNCHANGED <<batch, idx, results, threw, storeVars, notBatchVars>>

\* what score_company returns: the dict of calculate_score plus the company
score_result(co, s) ==
    LET res == calculate_score(s, weights)
    IN  [company_id |-> co.id, company_name |-> co.company_name,
         propensity_score |-> res.propensity_score, score_tier |-> res.score_tier,
         base_score |-> res.base_score, macro_modifier |-> res.macro_modifier,
         breakdown |-> res.breakdown]

\* the SignalScores score_company may read for a company: from any latest row
read_signals(rows, company_id) ==
    IF latest_rows(rows, company_id) = {} THEN {signals_of_nothing}
    ELSE {signals_of_row(r) : r \in latest_rows(rows, company_id)}

\* one iteration: score_company succeeds, the snapshot is saved
ScoreCompanyOk ==
    /\ pcB = "loop"
    /\ idx <= Len(batch)
    /\ \E co \in company_master, s \in read_signals(signal_history, batch[idx]) :
         /\ co.id = batch[idx]
         /\ signal_history' =
              save_signal_history(signal_history, co.id,
                  save_score_payload(calculate_score(s, weights), s, today))
         /\ results' = Append(results, score_result(co, s))
    /\ idx' = idx + 1
    /\ UNCHANGED <<pcB, batch, threw, company_master, today, notBatchVars>>

\* one iteration: the snapshot write raises after its retries; _save_score
\* logs the error and score_company still returns the result
ScoreCompanySaveFails ==
    /\ pcB = "loop"
    /\ idx <= Len(batch)
    /\ \E co \in company_master, s \in read_signals(signal_history, batch[idx]) :
         /\ co.id = batch[idx]
         /\ results' = Append(results, score_result(co, s))
    /\ idx' = idx + 1
    /\ UNCHANGED <<pcB, batch, threw, storeVars, notBatchVars>>

\* an exception that ends the whole loop (no try/except around the iteration)
ScoreCompanyRaisesAborts ==
    /\ pcB = "loop"
    /\ idx <= Len(batch)
    /\ threw' = threw \cup {idx}
    /\ pcB' = "raised"
    /\ UNCHANGED <<idx, batch, results, storeVars, notBatchVars>>

\* one iteration: a lookup of score_company raises; score_all logs and continues
ScoreCompanyRaises ==
    /\ pcB = "loop"
    /\ idx <= Len(batch)
    /\ threw' = threw \cup {idx}
    /\ idx' = idx + 1
    /\ UNCHANGED <<pcB, batch, results, storeVars, notBatchVars>>

\* after the loop: sort the results and return them
FinishBatch ==
    /\ pcB = "loop"
    /\ idx > Len(batch)
    /\ results' = sort_by_score_desc(results)
    /\ pcB' = "done"
    /\ UNCHANGED <<batch, idx, threw, storeVars, notBatchVars>>

NextBatch ==
    \/ FetchCompanies
    \/ FetchRaises
    \/ ScoreCompanyOk
    \/ ScoreCompanySaveFails
    \/ ScoreCompanyRaises
    \/ FinishBatch

SpecBatch == InitBatch /\ [][NextBatch]_vars

\* C10: score_all scores each organization independently: when scoring one
\* raises, the others are still scored and the returned list holds exactly the
\* organizations that did not raise; 5 organizations with #3 raising give 4
\* results, and the list is not empty when some organization succeeded.
C10_BatchResilient ==
    /\ pcB # "raised" \/ idx = 0
    /\ pcB = "done" =>
          /\ {results[k].company_id : k \in 1..Len(results)} =
                {batch[i] : i \in (1..Len(batch)) \ threw}
          /\ Len(results) = Len(batch) - Cardinality(threw)
          /\ (Len(batch) = 5 /\ threw = {3}) => Len(results) = 4
          /\ Cardinality(threw) < Len(batch) => results # <<>>

C10_Witness ==
    pcB = "done" /\ Len(batch) = 5 /\ threw = {3} /\ Len(results) = 4

\* the value of a column of row r, or `default` where the column is absent
value_or(r, col, default) == IF r.f[col] = Null THEN default ELSE r.f[col][1]

\* the inputs C12 names for a company: from its row of the maximum record
\* date, components absent as 0 and the macro modifier absent as 1.0; all
\* absent when the company has no row
inputs_named(rows, company_id) ==
    LET mine == {r \in rows : r.company_id = company_id}
    IN  IF mine = {} THEN signals_of_nothing
        ELSE LET r == CHOOSE x \in mine : \A q \in mine : q.record_date <= x.record_date
             IN  [expansion        |-> value_or(r, "expansion_score", 0),
                  distress         |-> value_or(r, "distress_score", 0),
                  sentiment        |-> value_or(r, "sentiment_score", 0),
                  job_velocity     |-> value_or(r, "job_velocity_score", 0),
                  turnover         |-> value_or(r, "turnover_score", 0),
                  market_tightness |-> value_or(r, "market_tightness_score", 0),
                  macro_modifier   |-> value_or(r, "macro_modifier", 100)]

\* C12: score_company takes its inputs from the signal_history row with the
\* maximum record date of the organization; with no row, or a component absent
\* from that row, the component is 0, and an absent macro modifier is 1.0:
\* every result score_all appends is the score of exactly those inputs.
C12_InputsFromLatestRow ==
    [][Len(results') = Len(results) + 1 =>
         LET res == results'[Len(results')]
             expected == calculate_score(inputs_named(signal_history, res.company_id),
                                         weights)
         IN  /\ res.company_id = batch[idx]
             /\ res.propensity_score = expected.propensity_score
             /\ res.score_tier = expected.score_tier
             /\ res.base_score = expected.base_score
             /\ res.macro_modifier = expected.macro_modifier
             /\ res.breakdown = expected.breakdown]_vars

\* company 1 had a full snapshot two days back and a turnover-only row of the
\* day before; its result was computed from the later row: turnover 40, every
\* other component 0, macro modifier 1.0; company 2, with the full snapshot
\* only, was scored with that snapshot's macro modifier 1.2
C12_Witness ==
    /\ Len(results) >= 2
    /\ results[1].company_id = 1
    /\ results[1].macro_modifier = 100
    /\ results[1].breakdown.expansion = 0
    /\ results[1].base_score = RoundHalfEven(40 * DefaultWeights.macro, 10)
    /\ results[2].company_id = 2
    /\ results[2].macro_modifier = 120
    /\ \E old, new \in signal_history :
          /\ old.company_id = 1 /\ new.company_id = 1
          /\ old.record_date = FirstDay - 2 /\ new.record_date = FirstDay - 1
          /\ old.f["expansion_score"] = Some(85) /\ new.f["expansion_score"] = Null
          /\ new.f["macro_modifier"] = Null

\* the position in the fetched list of the company of a result
fetched_at(res) == CHOOSE i \in 1..Len(batch) : batch[i] = res.company_id

C22_InvalidWeightsNotFatal ==
    /\ [](~validate_weights(weights) =>
            /\ engine = [weights_warning |-> TRUE, raised |-> FALSE]
            /\ pcB = "start" => ENABLED FetchCompanies
            /\ pcB = "loop" /\ idx <= Len(batch) => ENABLED ScoreCompanyOk
            /\ \A i \in 1..Len(results) :
                  /\ results[i].score_tier \in {"hot", "warm", "cool", "cold"}
                  /\ results[i].propensity_score \in 0..1000)
    /\ [][~validate_weights(weights) /\ Len(results') = Len(results) + 1 =>
            LET res == results'[Len(results')]
                expected == calculate_score(inputs_named(signal_history, res.company_id),
                                            weights)
            IN  /\ res.propensity_score = expected.propensity_score
                /\ res.score_tier = expected.score_tier
                /\ res.breakdown = expected.breakdown]_vars

\* score_all finished under weights summing to 1.7, warned about at
\* construction, and returned a hot result scored with them
C22_Witness ==
    /\ pcB = "done"
    /\ weights = SkewedWeights
    /\ engine.weights_warning
    /\ Len(results) >= 2
    /\ results[1].score_tier = "hot"
    /\ results[1].breakdown.expansion = RoundHalfEven(85 * SkewedWeights.expansion, 10)

(***************************************************************************)
(* Specification SpecTwice: score_company called repeatedly, collector      *)
(* appends and midnight in between                                          *)
(***************************************************************************)
\* the signal histories the calls start from: none; a full snapshot of the
\* day before for every organization; the same with a turnover-only row of
\* today for organization 1; a snapshot of today whose macro modifier is 0
TwiceHistories ==
    {{},
     {snapshot_row(i, i, FirstDay - 1, [ExampleSignals EXCEPT !.expansion = 100 - 10 * i])
        : i \in Orgs},
     {snapshot_row(i, i, FirstDay - 1, ExampleSignals) : i \in Orgs}
        \cup {partial_row(NumOrgs + 1, 1, turnover_payload_of(FirstDay, 40))},
     {snapshot_row(1, 1, FirstDay, [ExampleSignals EXCEPT !.macro_modifier = 0])}}

InitTwice ==
    /\ pcS = "idle"
    /\ weights \in WeightConfigs
    /\ signals = ExampleSignals
    /\ result = NoResult
    /\ probe = NoProbe
    /\ engine = engine_init(weights)
    /\ IdleNorm
    /\ IdleResolve
    /\ IdleBatch
    /\ IdleTriage
    /\ IdleMacro
    /\ IdleTitle
    /\ IdleSearch
    /\ IdleRun
    /\ IdleRetry
    /\ company_master = {org_row(i) : i \in Orgs}
    /\ signal_history \in TwiceHistories
    /\ today = FirstDay
    /\ appendLog = <<>>
    /\ scorer = [pc |-> "idle", company_id |-> 0, signals |-> signals_of_nothing]

\* score_company(company_id), the whole call: the company, the latest
\* snapshot, calculate_score, _save_score, return result
ScoreCompanyCall ==
    /\ Len(appendLog) < MaxAppends
    /\ \E co \in company_master :
         \E s \in read_signals(signal_history, co.id) :
            /\ do_save(co.id, save_score_payload(calculate_score(s, weights), s, today))
            /\ results' = Append(results, score_result(co, s))
    /\ UNCHANGED <<pcB, batch, idx, threw, company_master, today, scorer, scoreVars,
                   normVars, resolveVars, triageVars, macroVars, titleVars, searchVars,
                   runVars, retryVars>>

NextTwice == ScoreCompanyCall \/ CollectorAppend \/ NextDay

SpecTwice == InitTwice /\ [][NextTwice]_vars

\* a logged save_signal_history call is the snapshot write of _save_score
is_score_save(e) == "propensity_score" \in DOMAIN e.f

\* the number of score_company calls among the first i logged writes: the
\* index in results of the call that made write i
call_index(i) == Cardinality({j \in 1..i : is_score_save(appendLog[j])})

\* writes i and i + 1 are two score_company calls for one company on one
\* date with no append in between
repeated_call(log, i) ==
    /\ i >= 1
    /\ i + 1 <= Len(log)
    /\ is_score_save(log[i])
    /\ is_score_save(log[i + 1])
    /\ log[i].company_id = log[i + 1].company_id
    /\ log[i].record_date = log[i + 1].record_date

\* the step is the second of two such calls
SecondCall == Len(appendLog') = Len(appendLog) + 1 /\ repeated_call(appendLog', Len(appendLog))

StopAfterAttempt == 3

InitRetry ==
    /\ IdleScore
    /\ IdleNorm
    /\ IdleResolve
    /\ IdleSignal
    /\ IdleTriage
    /\ IdleMacro
    /\ IdleTitle
    /\ IdleSearch
    /\ IdleRun
    /\ company_master = {org_row(i) : i \in 1..BatchOrgs}
    /\ signal_history =
         {snapshot_row(i, i, FirstDay - 1, [ExampleSignals EXCEPT !.expansion = 100 - 10 * i])
            : i \in 1..BatchOrgs}
    /\ today = FirstDay
    /\ pcB = "start"
    /\ batch = <<>>
    /\ idx = 0
    /\ results = <<>>
    /\ threw = {}
    /\ pcW = "idle"
    /\ attempts = 0
    /\ write = Null
    /\ errlog = <<>>

\* score_company up to the call of _save_score: read the latest snapshot,
\* calculate, build the payload
BeginSave ==
    /\ pcB = "loop"
    /\ idx <= Len(batch)
    /\ pcW = "idle"
    /\ \E co \in company_master, s \in read_signals(signal_history, batch[idx]) :
         /\ co.id = batch[idx]
         /\ write' = Some([company |-> co, signals |-> s])
    /\ attempts' = 0
    /\ pcW' = "saving"
    /\ UNCHANGED <<errlog, batchVars, storeVars, notRetryVars>>

\* score_company after _save_score returned: the result goes to the list and
\* the loop moves on
result_appended ==
    /\ results' = Append(results, score_result(write[1].company, write[1].signals))
    /\ idx' = idx + 1
    /\ pcW' = "idle"
    /\ write' = Null

\* an attempt of the upsert succeeds: the snapshot is written
UpsertAttemptOk ==
    /\ pcW = "saving"
    /\ attempts < StopAfterAttempt
    /\ attempts' = attempts + 1
    /\ signal_history' =
         save_signal_history(signal_history, write[1].company.id,
             save_score_payload(calculate_score(write[1].signals, weights),
                                write[1].signals, today))
    /\ result_appended
    /\ UNCHANGED <<errlog, pcB, batch, threw, company_master, today, notRetryVars>>

\* the failing attempt with no except in _save_score and none in score_all:
\* the exception of the last attempt leaves the loop
UpsertAttemptFailsAborts ==
    /\ pcW = "saving"
    /\ attempts < StopAfterAttempt
    /\ attempts' = attempts + 1
    /\ IF attempts' = StopAfterAttempt
       THEN /\ pcB' = "raised"
            /\ pcW' = "idle"
            /\ write' = Null
            /\ errlog' = errlog
            /\ UNCHANGED <<results, idx>>
       ELSE UNCHANGED <<pcB, pcW, write, errlog, results, idx>>
    /\ UNCHANGED <<batch, threw, storeVars, notRetryVars>>

\* an attempt of the upsert raises: @retry calls again until the third
\* attempt has failed, then raises to save_signal_history's caller;
\* _save_score logs the error and score_company returns its result
UpsertAttemptFails ==
    /\ pcW = "saving"
    /\ attempts < StopAfterAttempt
    /\ attempts' = attempts + 1
    /\ IF attempts' = StopAfterAttempt
       THEN /\ errlog' = Append(errlog, write[1].company.id)
            /\ result_appended
       ELSE UNCHANGED <<errlog, results, idx, pcW, write>>
    /\ UNCHANGED <<pcB, batch, threw, storeVars, notRetryVars>>

NextRetry ==
    \/ FetchCompanies
    \/ BeginSave
    \/ UpsertAttemptOk
    \/ UpsertAttemptFails
    \/ (pcW = "idle" /\ ScoreCompanyRaises)
    \/ (pcW = "idle" /\ FinishBatch)

SpecRetry == InitRetry /\ [][NextRetry]_vars

\* the elements of a sequence
range_of(seq) == {seq[i] : i \in 1..Len(seq)}

\* the third attempt of a write fails
LastAttemptFails ==
    pcW = "saving" /\ attempts = StopAfterAttempt - 1 /\ signal_history' = signal_history
    /\ attempts' = StopAfterAttempt

contains(str, sub) ==
    \E i \in 1..(Len(str) - Len(sub) + 1) : SubSeq(str, i, i + Len(sub) - 1) = sub

SEARCH_TITLES ==
    <<<<"p", "l", "a", "n", "t", " ", "m", "a", "n", "a", "g", "e", "r">>,
      <<"o", "p", "e", "r", "a", "t", "i", "o", "n", "s", " ", "m", "a", "n", "a", "g", "e", "r">>,
      <<"p", "r", "o", "c", "u", "r", "e", "m", "e", "n", "t", " ", "m", "a", "n", "a", "g", "e", "r">>,
      <<"f", "a", "c", "i", "l", "i", "t", "y", " ", "m", "a", "n", "a", "g", "e", "r">>,
      <<"w", "a", "r", "e", "h", "o", "u", "s", "e", " ", "m", "a", "n", "a", "g", "e", "r">>,
      <<"p", "r", "o", "d", "u", "c", "t", "i", "o", "n", " ", "m", "a", "n", "a", "g", "e", "r">>,
      <<"h", "r", " ", "d", "i", "r", "e", "c", "t", "o", "r">>>>

BAD_TITLES ==
    <<<<"m", "a", "r", "k", "e", "t", "i", "n", "g">>,
      <<"s", "a", "l", "e", "s">>,
      <<"a", "c", "c", "o", "u", "n", "t">>,
      <<"b", "u", "s", "i", "n", "e", "s", "s", " ", "d", "e", "v", "e", "l", "o", "p", "m", "e", "n", "t">>,
      <<"f", "i", "n", "a", "n", "c", "e">>,
      <<"f", "i", "n", "a", "n", "c", "i", "a", "l">>,
      <<"a", "c", "c", "o", "u", "n", "t", "i", "n", "g">>,
      <<"c", "o", "n", "t", "r", "o", "l", "l", "e", "r">>,
      <<"l", "e", "g", "a", "l">>,
      <<"c", "o", "u", "n", "s", "e", "l">>,
      <<"a", "t", "t", "o", "r", "n", "e", "y">>,
      <<"c", "o", "m", "p", "l", "i", "a", "n", "c", "e">>,
      <<"c", "o", "m", "m", "u", "n", "i", "c", "a", "t", "i", "o", "n", "s">>,
      <<"p", "u", "b", "l", "i", "c", " ", "r", "e", "l", "a", "t", "i", "o", "n", "s">>,
      <<"m", "e", "d", "i", "a">>,
      <<"b", "r", "a", "n", "d">>,
      <<"c", "u", "s", "t", "o", "m", "e", "r", " ", "e", "x", "p", "e", "r", "i", "e", "n", "c", "e">>,
      <<"c", "u", "s", "t", "o", "m", "e", "r", " ", "s", "u", "c", "c", "e", "s", "s">>,
      <<"c", "u", "s", "t", "o", "m", "e", "r", " ", "s", "e", "r", "v", "i", "c", "e">>,
      <<"s", "o", "f", "t", "w", "a", "r", "e">>,
      <<"e", "n", "g", "i", "n", "e", "e", "r">>,
      <<"d", "e", "v", "e", "l", "o", "p", "e", "r">>,
      <<"a", "r", "c", "h", "i", "t", "e", "c", "t">>,
      <<"I", "T", " ">>,
      <<"d", "a", "t", "a">>,
      <<"a", "n", "a", "l", "y", "t", "i", "c", "s">>,
      <<"s", "c", "i", "e", "n", "t", "i", "s", "t">>,
      <<"r", "e", "s", "e", "a", "r", "c", "h">>,
      <<"p", "l", "a", "t", "f", "o", "r", "m">>,
      <<"p", "r", "o", "d", "u", "c", "t", " ", "m", "a", "n", "a", "g", "e", "r">>,
      <<"p", "r", "o", "d", "u", "c", "t", " ", "d", "i", "r", "e", "c", "t", "o", "r">>,
      <<"c", "o", "n", "s", "u", "l", "t", "a", "n", "t">>,
      <<"a", "d", "v", "i", "s", "o", "r", "y">>,
      <<"a", "s", "s", "o", "c", "i", "a", "t", "e", " ", "d", "i", "r", "e", "c", "t", "o", "r">>,
      <<"p", "r", "o", "c", "e", "s", "s", " ", "m", "i", "n", "i", "n", "g">>,
      <<"i", "n", "t", "e", "r", "n">>,
      <<"a", "s", "s", "i", "s", "t", "a", "n", "t">>,
      <<"c", "o", "o", "r", "d", "i", "n", "a", "t", "o", "r">>,
      <<"s", "p", "e", "c", "i", "a", "l", "i", "s", "t">>>>

Tier1Terms ==
    {<<"p", "l", "a", "n", "t", " ", "m", "a", "n", "a", "g", "e", "r">>,
     <<"f", "a", "c", "i", "l", "i", "t", "y", " ", "m", "a", "n", "a", "g", "e", "r">>,
     <<"s", "i", "t", "e", " ", "m", "a", "n", "a", "g", "e", "r">>}

Tier2Terms ==
    {<<"p", "r", "o", "c", "u", "r", "e", "m", "e", "n", "t">>,
     <<"p", "u", "r", "c", "h", "a", "s", "i", "n", "g">>,
     <<"s", "o", "u", "r", "c", "i", "n", "g">>}

Tier3Terms ==
    {<<"o", "p", "e", "r", "a", "t", "i", "o", "n", "s", " ", "m", "a", "n", "a", "g", "e", "r">>,
     <<"o", "p", "e", "r", "a", "t", "i", "o", "n", "s", " ", "d", "i", "r", "e", "c", "t", "o", "r">>,
     <<"v", "p", " ", "o", "p", "e", "r", "a", "t", "i", "o", "n", "s">>}

Tier4Terms ==
    {<<"p", "r", "o", "d", "u", "c", "t", "i", "o", "n", " ", "m", "a", "n", "a", "g", "e", "r">>,
     <<"m", "a", "n", "u", "f", "a", "c", "t", "u", "r", "i", "n", "g", " ", "m", "a", "n", "a", "g", "e", "r">>}

Tier5Terms ==
    {<<"w", "a", "r", "e", "h", "o", "u", "s", "e", " ", "m", "a", "n", "a", "g", "e", "r">>,
     <<"d", "i", "s", "t", "r", "i", "b", "u", "t", "i", "o", "n", " ", "m", "a", "n", "a", "g", "e", "r">>,
     <<"l", "o", "g", "i", "s", "t", "i", "c", "s", " ", "m", "a", "n", "a", "g", "e", "r">>}

Tier6Terms ==
    {<<"h", "r", " ", "d", "i", "r", "e", "c", "t", "o", "r">>,
     <<"h", "u", "m", "a", "n", " ", "r", "e", "s", "o", "u", "r", "c", "e", "s", " ", "d", "i", "r", "e", "c", "t", "o", "r">>,
     <<"t", "a", "l", "e", "n", "t", " ", "a", "c", "q", "u", "i", "s", "i", "t", "i", "o", "n">>}

GenericTerms ==
    {<<"m", "a", "n", "a", "g", "e", "r">>,
     <<"d", "i", "r", "e", "c", "t", "o", "r">>}

\* score_title without the exclusion list checked first
score_title_no_exclusions(title) ==
    LET title_lower == lower(title)
        any(terms) == \E t \in terms : contains(title_lower, t)
    IN  IF title = <<>> THEN 0
        ELSE IF any(Tier1Terms) THEN 100
        ELSE IF any(Tier2Terms) THEN 90
        ELSE IF any(Tier3Terms) THEN 80
        ELSE IF any(Tier4Terms) THEN 75
        ELSE IF any(Tier5Terms) THEN 70
        ELSE IF any(Tier6Terms) THEN 60
        ELSE IF any(GenericTerms) THEN 30
        ELSE 10

\* bad.lower() for bad in BAD_TITLES
bad_titles_lower == [b \in 1..Len(BAD_TITLES) |-> lower(BAD_TITLES[b])]

\* score_title(title): 0 for an empty title or one holding an exclusion term,
\* otherwise the score of the first category that matches
score_title(title) ==
    LET title_lower == lower(title)
    IN  IF title = <<>> THEN 0
        ELSE IF \E b \in 1..Len(BAD_TITLES) : contains(title_lower, bad_titles_lower[b]) THEN 0
        ELSE score_title_no_exclusions(title)

\* `value or ''` on a column that may be NULL
or_empty(v) == IF v = Null THEN <<>> ELSE v[1]

(***************************************************************************)
(* Contact triage: the title classifier of linkedin_xray_search_v2.py      *)
(***************************************************************************)
\* BAD_TITLES of linkedin_xray_search_v2.py
BAD_TITLES_V2 ==
    <<<<"m", "a", "r", "k", "e", "t", "i", "n", "g">>,
      <<"s", "a", "l", "e", "s">>,
      <<"a", "c", "c", "o", "u", "n", "t">>,
      <<"b", "u", "s", "i", "n", "e", "s", "s", " ", "d", "e", "v", "e", "l", "o", "p", "m", "e", "n", "t">>,
      <<"f", "i", "n", "a", "n", "c", "e">>,
      <<"f", "i", "n", "a", "n", "c", "i", "a", "l">>,
      <<"a", "c", "c", "o", "u", "n", "t", "i", "n", "g">>,
      <<"c", "o", "n", "t", "r", "o", "l", "l", "e", "r">>,
      <<"t", "r", "e", "a", "s", "u", "r", "e", "r">>,
      <<"l", "e", "g", "a", "l">>,
      <<"c", "o", "u", "n", "s", "e", "l">>,
      <<"a", "t", "t", "o", "r", "n", "e", "y">>,
      <<"c", "o", "m", "p", "l", "i", "a", "n", "c", "e">>,
      <<"c", "o", "m", "m", "u", "n", "i", "c", "a", "t", "i", "o", "n", "s">>,
      <<"p", "u", "b", "l", "i", "c", " ", "r", "e", "l", "a", "t", "i", "o", "n", "s">>,
      <<"m", "e", "d", "i", "a">>,
      <<"b", "r", "a", "n", "d">>,
      <<"c", "u", "s", "t", "o", "m", "e", "r", " ", "e", "x", "p", "e", "r", "i", "e", "n", "c", "e">>,
      <<"c", "u", "s", "t", "o", "m", "e", "r", " ", "s", "u", "c", "c", "e", "s", "s">>,
      <<"c", "u", "s", "t", "o", "m", "e", "r", " ", "s", "e", "r", "v", "i", "c", "e">>,
      <<"s", "o", "f", "t", "w", "a", "r", "e">>,
      <<"e", "n", "g", "i", "n", "e", "e", "r">>,
      <<"d", "e", "v", "e", "l", "o", "p", "e", "r">>,
      <<"a", "r", "c", "h", "i", "t", "e", "c", "t">>,
      <<"I", "T", " ">>,
      <<"d", "a", "t", "a">>,
      <<"a", "n", "a", "l", "y", "t", "i", "c", "s">>,
      <<"s", "c", "i", "e", "n", "t", "i", "s", "t">>,
      <<"r", "e", "s", "e", "a", "r", "c", "h">>,
      <<"p", "l", "a", "t", "f", "o", "r", "m">>,
      <<"p", "r", "o", "d", "u", "c", "t", " ", "m", "a", "n", "a", "g", "e", "r">>,
      <<"p", "r", "o", "d", "u", "c", "t", " ", "d", "i", "r", "e", "c", "t", "o", "r">>,
      <<"c", "o", "n", "s", "u", "l", "t", "a", "n", "t">>,
      <<"a", "d", "v", "i", "s", "o", "r", "y">>,
      <<"a", "s", "s", "o", "c", "i", "a", "t", "e", " ", "d", "i", "r", "e", "c", "t", "o", "r">>,
      <<"i", "n", "t", "e", "r", "n">>,
      <<"a", "s", "s", "i", "s", "t", "a", "n", "t">>,
      <<"c", "o", "o", "r", "d", "i", "n", "a", "t", "o", "r">>,
      <<"s", "p", "e", "c", "i", "a", "l", "i", "s", "t">>,
      <<"p", "r", "o", "c", "e", "s", "s", " ", "m", "i", "n", "i", "n", "g">>>>

\* tier1 of score_title in linkedin_xray_search_v2.py
Tier1TermsV2 ==
    {<<"p", "l", "a", "n", "t", " ", "m", "a", "n", "a", "g", "e", "r">>,
     <<"f", "a", "c", "i", "l", "i", "t", "y", " ", "m", "a", "n", "a", "g", "e", "r">>,
     <<"s", "i", "t", "e", " ", "m", "a", "n", "a", "g", "e", "r">>,
     <<"g", "e", "n", "e", "r", "a", "l", " ", "m", "a", "n", "a", "g", "e", "r", " ", "p", "l", "a", "n", "t">>}

\* tier2 of score_title in linkedin_xray_search_v2.py
Tier2TermsV2 ==
    {<<"p", "r", "o", "c", "u", "r", "e", "m", "e", "n", "t", " ", "m", "a", "n", "a", "g", "e", "r">>,
     <<"p", "r", "o", "c", "u", "r", "e", "m", "e", "n", "t", " ", "d", "i", "r", "e", "c", "t", "o", "r">>,
     <<"p", "u", "r", "c", "h", "a", "s", "i", "n", "g", " ", "m", "a", "n", "a", "g", "e", "r">>,
     <<"p", "u", "r", "c", "h", "a", "s", "i", "n", "g", " ", "d", "i", "r", "e", "c", "t", "o", "r">>}

\* tier3 of score_title in linkedin_xray_search_v2.py
Tier3TermsV2 ==
    {<<"o", "p", "e", "r", "a", "t", "i", "o", "n", "s", " ", "m", "a", "n", "a", "g", "e", "r">>,
     <<"o", "p", "e", "r", "a", "t", "i", "o", "n", "s", " ", "d", "i", "r", "e", "c", "t", "o", "r">>,
     <<"v", "p", " ", "o", "p", "e", "r", "a", "t", "i", "o", "n", "s">>,
     <<"d", "i", "r", "e", "c", "t", "o", "r", " ", "o", "f", " ", "o", "p", "e", "r", "a", "t", "i", "o", "n", "s">>}

\* tier4 of score_title in linkedin_xray_search_v2.py
Tier4TermsV2 ==
    {<<"p", "r", "o", "d", "u", "c", "t", "i", "o", "n", " ", "m", "a", "n", "a", "g", "e", "r">>,
     <<"m", "a", "n", "u", "f", "a", "c", "t", "u", "r", "i", "n", "g", " ", "m", "a", "n", "a", "g", "e", "r">>,
     <<"p", "r", "o", "d", "u", "c", "t", "i", "o", "n", " ", "d", "i", "r", "e", "c", "t", "o", "r">>}

\* tier5 of score_title in linkedin_xray_search_v2.py
Tier5TermsV2 ==
    {<<"w", "a", "r", "e", "h", "o", "u", "s", "e", " ", "m", "a", "n", "a", "g", "e", "r">>,
     <<"d", "i", "s", "t", "r", "i", "b", "u", "t", "i", "o", "n", " ", "m", "a", "n", "a", "g", "e", "r">>,
     <<"l", "o", "g", "i", "s", "t", "i", "c", "s", " ", "m", "a", "n", "a", "g", "e", "r">>}

\* tier6 of score_title in linkedin_xray_search_v2.py
Tier6TermsV2 ==
    {<<"h", "r", " ", "d", "i", "r", "e", "c", "t", "o", "r">>,
     <<"h", "u", "m", "a", "n", " ", "r", "e", "s", "o", "u", "r", "c", "e", "s", " ", "d", "i", "r", "e", "c", "t", "o", "r">>,
     <<"t", "a", "l", "e", "n", "t", " ", "a", "c", "q", "u", "i", "s", "i", "t", "i", "o", "n", " ", "d", "i", "r", "e", "c", "t", "o", "r">>}

\* score_title of linkedin_xray_search_v2.py
score_title_v2(title) ==
    LET title_lower == lower(title)
        any(terms) == \E t \in terms : contains(title_lower, t)
    IN  IF title = <<>> THEN 0
        ELSE IF \E b \in 1..Len(BAD_TITLES_V2) :
                   contains(title_lower, lower(BAD_TITLES_V2[b])) THEN 0
        ELSE IF any(Tier1TermsV2) THEN 100
        ELSE IF any(Tier2TermsV2) THEN 90
        ELSE IF any(Tier3TermsV2) THEN 80
        ELSE IF any(Tier4TermsV2) THEN 75
        ELSE IF any(Tier5TermsV2) THEN 70
        ELSE IF any(Tier6TermsV2) THEN 60
        ELSE IF any(GenericTerms) THEN 30
        ELSE 10

(***************************************************************************)
(* Contact triage: the store functions (linkedin_xray_search_v3.py)        *)
(***************************************************************************)
\* str.replace(old, new)
RECURSIVE replace(_, _, _)
replace(str, old, new) ==
    IF Len(str) < Len(old) THEN str
    ELSE IF SubSeq(str, 1, Len(old)) = old
         THEN new \o replace(SubSeq(str, Len(old) + 1, Len(str)), old, new)
         ELSE <<Head(str)>> \o replace(Tail(str), old, new)

\* str.split(): the words between runs of whitespace
RECURSIVE split_from(_, _, _)
split_from(str, word, words) ==
    IF str = <<>> THEN (IF word = <<>> THEN words ELSE Append(words, word))
    ELSE IF Head(str) = " "
         THEN split_from(Tail(str), <<>>, IF word = <<>> THEN words ELSE Append(words, word))
         ELSE split_from(Tail(str), Append(word, Head(str)), words)

split(str) == split_from(str, <<>>, <<>>)

\* the literals of extract_domain and generate_email
HTTPS == <<"h", "t", "t", "p", "s", ":", "/", "/">>
HTTP == <<"h", "t", "t", "p", ":", "/", "/">>
WWW == <<"w", "w", "w", ".">>
FIRST == <<"{", "f", "i", "r", "s", "t", "}">>
LAST == <<"{", "l", "a", "s", "t", "}">>
F == <<"{", "f", "}">>

\* str.split('/')[0]
RECURSIVE before_slash(_)
before_slash(str) ==
    IF str = <<>> \/ Head(str) = "/" THEN <<>> ELSE <<Head(str)>> \o before_slash(Tail(str))

\* extract_domain(website): Null for no website or one without a dot
extract_domain(website) ==
    IF or_empty(website) = <<>> THEN Null
    ELSE LET d == replace(replace(replace(lower(website[1]), HTTPS, <<>>),
                                  HTTP, <<>>), WWW, <<>>)
         IN  IF contains(d, <<".">>) THEN Some(before_slash(d)) ELSE Null

\* generate_email(name, pattern, domain): Null unless the name has two words
\* and pattern and domain are present
generate_email(name, pattern, domain) ==
    IF name = <<>> \/ or_empty(pattern) = <<>> \/ or_empty(domain) = <<>> THEN Null
    ELSE LET parts == split(strip(name))
         IN  IF Len(parts) < 2 THEN Null
             ELSE LET first == lower(parts[1])
                      last  == lower(parts[Len(parts)])
                      f     == IF first # <<>> THEN <<first[1]>> ELSE <<>>
                      email == replace(replace(replace(pattern[1], FIRST, first),
                                               LAST, last), F, f)
                  IN  Some(email \o <<"@">> \o domain[1])

\* supabase.table('company_master').update(update).eq('id', company_id)
update_company(rows, company_id, update) ==
    {IF r.id = company_id
     THEN [c \in DOMAIN r |-> IF c \in DOMAIN update THEN update[c] ELSE r[c]]
     ELSE r : r \in rows}

\* update_company touching every row, whatever its id
update_every_company(rows, company_id, update) ==
    {[c \in DOMAIN r |-> IF c \in DOMAIN update THEN update[c] ELSE r[c]] : r \in rows}

\* the update dict of save_contact
contact_update(contact, pattern, website, now) ==
    LET email == generate_email(contact.name, pattern, extract_domain(website))
        update == [c \in {"primary_contact_name", "primary_contact_title",
                          "primary_contact_linkedin", "xray_search_date"} |->
                     CASE c = "primary_contact_name"     -> Some(contact.name)
                       [] c = "primary_contact_title"    -> Some(contact.title)
                       [] c = "primary_contact_linkedin" -> Some(contact.linkedin_url)
                       [] OTHER                          -> Some(now)]
    IN  IF email # Null
        THEN [c \in DOMAIN update \cup {"primary_contact_email"} |->
                IF c = "primary_contact_email" THEN email ELSE update[c]]
        ELSE update

\* save_contact(company_id, contact, pattern, website) when the update succeeds
save_contact(rows, company_id, contact, pattern, website, now) ==
    update_company(rows, company_id, contact_update(contact, pattern, website, now))

\* mark_searched(company_id) when the update succeeds
mark_searched(rows, company_id, now) ==
    update_company(rows, company_id, [c \in {"xray_search_date"} |-> Some(now)])

\* company_ids of the signal_history rows with score_tier = 'hot' (the query's
\* .limit(300) is above the number of rows of any store of the model)
hot_company_ids(history) ==
    {r.company_id : r \in {h \in history : h.f["score_tier"] = Some("hot")}}

\* priority_lookup.get(id, 999): the rank of a hot company
priority_lookup(history, id) ==
    LET ranks == {h.f["priority_rank"][1] :
                    h \in {r \in history : r.company_id = id /\ r.f["score_tier"] = Some("hot")}}
    IN  IF ranks = {} THEN 999 ELSE CHOOSE x \in ranks : \A y \in ranks : x <= y

\* a set of rows as the list sorted by priority rank
RECURSIVE sort_by_rank(_, _)
sort_by_rank(rows, history) ==
    IF rows = {} THEN <<>>
    ELSE LET first == CHOOSE r \in rows : \A q \in rows :
                         \/ priority_lookup(history, r.id) < priority_lookup(history, q.id)
                         \/ /\ priority_lookup(history, r.id) = priority_lookup(history, q.id)
                            /\ r.id <= q.id
         IN  <<first>> \o sort_by_rank(rows \ {first}, history)

\* list[:n]
take(seq, n) == SubSeq(seq, 1, Min(n, Len(seq)))

\* the rows a query capped by .limit(n) can return: any n of the matching rows
limited(rows, n) ==
    {S \in SUBSET rows : Cardinality(S) = Min(n, Cardinality(rows))}

\* the filter of get_new_companies without the no-contact condition
new_company_rows_any_contact(rows, history) ==
    {r \in rows : /\ r.id \in hot_company_ids(history)
                  /\ r.hunter_email_pattern # Null}

\* the filter of get_new_companies: hot, pattern known, no contact
new_company_rows(rows, history) ==
    {r \in rows : /\ r.id \in hot_company_ids(history)
                  /\ r.hunter_email_pattern # Null
                  /\ r.primary_contact_name = Null}

\* the rows get_companies_with_wrong_contacts asks the store for: hot, pattern
\* known, a contact stored
contact_rows(rows, history) ==
    {r \in rows : /\ r.id \in hot_company_ids(history)
                  /\ r.hunter_email_pattern # Null
                  /\ r.primary_contact_name # Null}

\* the wrong contacts among the rows returned: title scoring under 60
wrong_contacts(returned_rows) ==
    {r \in returned_rows : score_title(or_empty(r.primary_contact_title)) < 60}

\* get_new_companies(limit), given the rows the capped query returned
get_new_companies(returned_rows, history, n) ==
    take(sort_by_rank(returned_rows, history), n)

\* get_companies_with_wrong_contacts(limit), given the rows the capped query
\* returned
get_companies_with_wrong_contacts(returned_rows, history, n) ==
    take(sort_by_rank(wrong_contacts(returned_rows), history), n)

(***************************************************************************)
(* Contact triage: search_company and run_progressive_enrichment           *)
(***************************************************************************)
\* for title in SEARCH_TITLES[:4]
SearchesPerCompany == 4

\* .limit(100) of get_companies_with_wrong_contacts
WrongContactCap == 100

\* a contact dict of serpapi_search
new_contact(name, title, link) ==
    [name |-> name, title |-> title, linkedin_url |-> link, score |-> score_title(title)]

\* results.sort(key=lambda x: x['score'], reverse=True): stable
insert_contact(sorted, x) ==
    LET k == Cardinality({i \in 1..Len(sorted) : sorted[i].score >= x.score})
    IN  SubSeq(sorted, 1, k) \o <<x>> \o SubSeq(sorted, k + 1, Len(sorted))

RECURSIVE sort_contacts_from(_, _, _)
sort_contacts_from(seq, i, sorted) ==
    IF i > Len(seq) THEN sorted
    ELSE sort_contacts_from(seq, i + 1, insert_contact(sorted, seq[i]))

\* serpapi_search(query) on a response whose LinkedIn items parse to `items`
serpapi_search(items) ==
    sort_contacts_from([i \in 1..Len(items) |->
                          new_contact(items[i].name, items[i].title, items[i].link)],
                       1, <<>>)

\* scan_results that keeps searching after an excellent match
RECURSIVE scan_results_no_early_return(_, _, _)
scan_results_no_early_return(res, i, acc) ==
    IF i > Len(res) THEN acc
    ELSE LET contact == res[i]
         IN  IF contact.score >= 60 /\ contact.score > acc.best_score
             THEN scan_results_no_early_return(res, i + 1,
                                    [best_contact |-> Some(contact),
                                     best_score |-> contact.score, returned |-> FALSE])
             ELSE scan_results_no_early_return(res, i + 1, acc)

\* the loop of search_company over the results of one request
RECURSIVE scan_results(_, _, _)
scan_results(res, i, acc) ==
    IF i > Len(res) THEN acc
    ELSE LET contact == res[i]
         IN  IF contact.score >= 60 /\ contact.score > acc.best_score
             THEN IF contact.score >= 80
                  THEN [best_contact |-> Some(contact), best_score |-> contact.score,
                        returned |-> TRUE]
                  ELSE scan_results(res, i + 1,
                                    [best_contact |-> Some(contact),
                                     best_score |-> contact.score, returned |-> FALSE])
             ELSE scan_results(res, i + 1, acc)

\* search_company entered: best_contact = None, best_score = 0, first title next
FreshSearch ==
    [state |-> "running", title |-> 1, best_contact |-> Null, best_score |-> 0,
     requests |-> 0]

(***************************************************************************)
(* SpecTriage: passes of run_progressive_enrichment over a small store     *)
(***************************************************************************)
\* names, titles, patterns and websites of the model's store and searches
NAME_ANN == <<"A", "n", "n", " ", "L", "e", "e">>
NAME_BO == <<"B", "o">>
NAME_CY == <<"C", "y", " ", "D", "a", "y">>
NAME_DI == <<"D", "i", " ", "F", "o", "x">>
NAME_ED == <<"E", "d", " ", "G", "i", "l">>
NAME_FLO == <<"F", "l", "o", " ", "H", "a", "y">>
NAME_GUS == <<"G", "u", "s", " ", "I", "t", "o">>
TITLE_PLANT == <<"P", "l", "a", "n", "t", " ", "M", "a", "n", "a", "g", "e", "r">>
TITLE_OPS == <<"O", "p", "e", "r", "a", "t", "i", "o", "n", "s", " ", "M", "a", "n", "a", "g", "e", "r">>
TITLE_PROD == <<"P", "r", "o", "d", "u", "c", "t", "i", "o", "n", " ", "M", "a", "n", "a", "g", "e", "r">>
TITLE_HR == <<"H", "R", " ", "D", "i", "r", "e", "c", "t", "o", "r">>
TITLE_OFFICE == <<"O", "f", "f", "i", "c", "e", " ", "M", "a", "n", "a", "g", "e", "r">>
TITLE_SALESOPS == <<"S", "a", "l", "e", "s", " ", "O", "p", "e", "r", "a", "t", "i", "o", "n", "s", " ", "M", "a", "n", "a", "g", "e", "r">>
COMPANY_ACME == <<"A", "c", "m", "e">>
COMPANY_ACME_TOOLS == <<"A", "c", "m", "e", " ", "T", "o", "o", "l", "s">>
WEBSITE_ACME == <<"h", "t", "t", "p", "s", ":", "/", "/", "w", "w", "w", ".", "a", "c", "m", "e", ".", "c", "o", "m", "/", "a", "b", "o", "u", "t">>
WEBSITE_NO_DOT == <<"a", "c", "m", "e">>
PATTERN_FIRST_LAST == <<"{", "f", "i", "r", "s", "t", "}", ".", "{", "l", "a", "s", "t", "}">>
PATTERN_F_LAST == <<"{", "f", "}", "{", "l", "a", "s", "t", "}">>
EMAIL_OLD == <<"e", "d", "@", "o", "l", "d", ".", "c", "o", "m">>

\* the LinkedIn profiles a search can return: name, job title, link
Candidates ==
    {[name |-> NAME_ANN, title |-> TITLE_PLANT, link |-> "linkedin.com/in/ann"],
     [name |-> NAME_BO, title |-> TITLE_OPS, link |-> "linkedin.com/in/bo"],
     [name |-> NAME_CY, title |-> TITLE_PROD, link |-> "linkedin.com/in/cy"],
     [name |-> NAME_DI, title |-> TITLE_HR, link |-> "linkedin.com/in/di"],
     [name |-> NAME_ED, title |-> TITLE_OFFICE, link |-> "linkedin.com/in/ed"],
     [name |-> NAME_FLO, title |-> TITLE_SALESOPS, link |-> "linkedin.com/in/flo"]}

\* the item lists of one response
ResponseItems ==
    UNION {[1..n -> Candidates] : n \in 0..MaxResults}

\* what serpapi_search can return: the sorted, scored results of a response
SearchResults == {serpapi_search(items) : items \in ResponseItems}

TriageColumns == SignalColumns \cup {"priority_rank"}

\* the snapshot the scoring pass left for a company: its tier and rank
tier_row(id, tier) ==
    [rid |-> id, company_id |-> id, record_date |-> FirstDay - 1,
     f |-> [c \in TriageColumns |->
              CASE c = "score_tier"    -> Some(tier)
                [] c = "priority_rank" -> Some(id)
                [] OTHER               -> Null]]

\* a company_master row with the columns the triage reads and writes
triage_row(id, website, pattern, name, title, email) ==
    [id |-> id,
     company_name |-> IF id = 1 THEN COMPANY_ACME ELSE COMPANY_ACME_TOOLS,
     website |-> website,
     hunter_email_pattern |-> pattern,
     primary_contact_name |-> name,
     primary_contact_title |-> title,
     primary_contact_linkedin |-> Null,
     primary_contact_email |-> email,
     xray_search_date |-> Null]

\* what a company can look like before the first pass: tier and row
Profiles ==
    <<\* hot, pattern known, never searched
     [tier |-> "hot", website |-> Some(WEBSITE_ACME), pattern |-> Some(PATTERN_FIRST_LAST),
      name |-> Null, title |-> Null, email |-> Null],
     \* hot, a generic manager stored by an earlier script
     [tier |-> "hot", website |-> Null, pattern |-> Some(PATTERN_F_LAST),
      name |-> Some(NAME_ED), title |-> Some(TITLE_OFFICE), email |-> Some(EMAIL_OLD)],
     \* hot, a low-tier match stored
     [tier |-> "hot", website |-> Some(WEBSITE_ACME), pattern |-> Some(PATTERN_F_LAST),
      name |-> Some(NAME_CY), title |-> Some(TITLE_PROD), email |-> Null],
     \* hot, a tier-1 match stored
     [tier |-> "hot", website |-> Some(WEBSITE_NO_DOT), pattern |-> Some(PATTERN_FIRST_LAST),
      name |-> Some(NAME_ANN), title |-> Some(TITLE_PLANT), email |-> Null],
     \* hot, no pattern
     [tier |-> "hot", website |-> Some(WEBSITE_ACME), pattern |-> Null,
      name |-> Null, title |-> Null, email |-> Null],
     \* hot, a contact stored without a title
     [tier |-> "hot", website |-> Some(WEBSITE_ACME), pattern |-> Some(PATTERN_FIRST_LAST),
      name |-> Some(NAME_GUS), title |-> Null, email |-> Null],
     \* not hot
     [tier |-> "warm", website |-> Some(WEBSITE_ACME), pattern |-> Some(PATTERN_FIRST_LAST),
      name |-> Null, title |-> Null, email |-> Null]>>

TriageCompanies == 1..TriageOrgs

\* the stores a run starts from: in store 0 no company has a contact yet, in
\* store k > 0 company i has profile i + k - 1 (cyclically)
Stores == 0..Len(Profiles)

store_profile(k, i) ==
    IF k = 0 THEN Profiles[1] ELSE Profiles[((i + k - 2) % Len(Profiles)) + 1]

InitTriage ==
    /\ IdleScore
    /\ IdleNorm
    /\ IdleResolve
    /\ IdleSignal
    /\ IdleBatch
    /\ IdleMacro
    /\ IdleTitle
    /\ IdleSearch
    /\ IdleRun
    /\ IdleRetry
    /\ \E k \in Stores :
         /\ company_master =
              {triage_row(i, store_profile(k, i).website, store_profile(k, i).pattern,
                          store_profile(k, i).name, store_profile(k, i).title,
                          store_profile(k, i).email) : i \in TriageCompanies}
         /\ signal_history = {tier_row(i, store_profile(k, i).tier) : i \in TriageCompanies}
    /\ today = FirstDay
    /\ pcT = "ready"
    /\ runLimit = 0
    /\ newCount = 0
    /\ companies = <<>>
    /\ pos = 0
    /\ search = NoSearch
    /\ passes = 0
    /\ replaced = {}

\* `contact and contact.get('score', 0) >= 60` on what search_company returned
qualifies(best_contact) == best_contact # Null /\ best_contact[1].score >= 60

\* the company the loop is at, as the list fetched at the start of the phase
\* holds it
current_company == companies[pos]

\* the row of company `id` as the store holds it now
stored_row(id) == CHOOSE r \in company_master : r.id = id

\* the history entry of a save over a stored contact
overwrite_entry(id, contact) ==
    IF stored_row(id).primary_contact_name = Null THEN {}
    ELSE {[company_id |-> id,
           old_score |-> score_title(or_empty(stored_row(id).primary_contact_title)),
           new_score |-> contact.score]}

\* the loop moves on to the next company of the list
next_company ==
    /\ pos' = pos + 1
    /\ search' = IF pos + 1 <= Len(companies) THEN FreshSearch ELSE NoSearch

\* a pass starts: SERPAPI_KEY is set, get_new_companies(limit) returns (an
\* exception in it gives the empty list)
StartPass(n, ok) ==
    /\ pcT = "ready"
    /\ passes < MaxPasses
    /\ \E returned_rows \in
            IF ok THEN limited(new_company_rows(company_master, signal_history), n * 2)
            ELSE {{}} :
         companies' = get_new_companies(returned_rows, signal_history, n)
    /\ runLimit' = n
    /\ newCount' = Len(companies')
    /\ pos' = 1
    /\ search' = IF companies' # <<>> THEN FreshSearch ELSE NoSearch
    /\ pcT' = "phase1"
    /\ UNCHANGED <<passes, replaced, storeVars, notTriageVars>>

\* a pass without SERPAPI_KEY returns at once
PassWithoutKey ==
    /\ pcT = "ready"
    /\ passes < MaxPasses
    /\ passes' = passes + 1
    /\ UNCHANGED <<pcT, runLimit, newCount, companies, pos, search, replaced,
                   storeVars, notTriageVars>>

\* search_company: the state after one request of the loop over
\* SEARCH_TITLES[:4] whose scan of the results gave `acc`
after_request(acc) ==
    [state |-> IF acc.returned \/ search.title = SearchesPerCompany
               THEN "returned" ELSE "running",
     title |-> IF acc.returned \/ search.title = SearchesPerCompany
               THEN search.title ELSE search.title + 1,
     best_contact |-> acc.best_contact,
     best_score |-> acc.best_score,
     requests |-> search.requests + 1]

\* search_company: one request that succeeds with results `res`
SearchRequest(res) ==
    /\ pcT \in {"phase1", "phase2"}
    /\ search.state = "running"
    /\ search' = after_request(
                    scan_results(res, 1,
                                 [best_contact |-> search.best_contact,
                                  best_score |-> search.best_score,
                                  returned |-> FALSE]))
    /\ UNCHANGED <<pcT, runLimit, newCount, companies, pos, passes, replaced,
                   storeVars, notTriageVars>>

\* search_company: one request that returns {"error": ...}
SearchRequestFails ==
    /\ pcT \in {"phase1", "phase2"}
    /\ search.state = "running"
    /\ search' = after_request([best_contact |-> search.best_contact,
                                best_score |-> search.best_score,
                                returned |-> FALSE])
    /\ UNCHANGED <<pcT, runLimit, newCount, companies, pos, passes, replaced,
                   storeVars, notTriageVars>>

\* phase 1, a qualifying contact found: save_contact (ok: the update succeeds)
Phase1Contact(ok) ==
    /\ pcT = "phase1"
    /\ search.state = "returned"
    /\ qualifies(search.best_contact)
    /\ LET co == current_company
           contact == search.best_contact[1]
       IN  IF ok
           THEN /\ company_master' = save_contact(company_master, co.id, contact,
                                                  co.hunter_email_pattern, co.website, today)
                /\ replaced' = replaced \cup overwrite_entry(co.id, contact)
           ELSE UNCHANGED <<company_master, replaced>>
    /\ next_company
    /\ UNCHANGED <<pcT, runLimit, newCount, companies, passes,
                   signal_history, today, notTriageVars>>

\* phase 1, no qualifying contact: mark_searched (ok: the update succeeds)
Phase1NoContact(ok) ==
    /\ pcT = "phase1"
    /\ search.state = "returned"
    /\ ~qualifies(search.best_contact)
    /\ company_master' = IF ok THEN mark_searched(company_master, current_company.id, today)
                         ELSE company_master
    /\ next_company
    /\ UNCHANGED <<pcT, runLimit, newCount, companies, passes, replaced,
                   signal_history, today, notTriageVars>>

\* phase 1 done and remaining > 0: get_companies_with_wrong_contacts(remaining)
\* returns (an exception in it gives the empty list)
StartPhase2(ok) ==
    /\ pcT = "phase1"
    /\ pos > Len(companies)
    /\ runLimit - newCount > 0
    /\ \E returned_rows \in
            IF ok THEN limited(contact_rows(company_master, signal_history), WrongContactCap)
            ELSE {{}} :
         companies' = get_companies_with_wrong_contacts(returned_rows, signal_history,
                                                        runLimit - newCount)
    /\ pos' = 1
    /\ search' = IF companies' # <<>> THEN FreshSearch ELSE NoSearch
    /\ pcT' = "phase2"
    /\ UNCHANGED <<runLimit, newCount, passes, replaced, storeVars, notTriageVars>>

\* phase 1 done and remaining = 0: the pass ends
SkipPhase2 ==
    /\ pcT = "phase1"
    /\ pos > Len(companies)
    /\ runLimit - newCount <= 0
    /\ pcT' = "ready"
    /\ passes' = passes + 1
    /\ UNCHANGED <<runLimit, newCount, companies, pos, search, replaced,
                   storeVars, notTriageVars>>

\* phase 2, a qualifying contact found: saved only if it scores above the
\* current title (ok: the update succeeds)
Phase2Contact(ok) ==
    /\ pcT = "phase2"
    /\ search.state = "returned"
    /\ qualifies(search.best_contact)
    /\ LET co == current_company
           contact == search.best_contact[1]
           current_score == score_title(or_empty(co.primary_contact_title))
       IN  IF contact.score > current_score /\ ok
           THEN /\ company_master' = save_contact(company_master, co.id, contact,
                                                  co.hunter_email_pattern, co.website, today)
                /\ replaced' = replaced \cup overwrite_entry(co.id, contact)
           ELSE UNCHANGED <<company_master, replaced>>
    /\ next_company
    /\ UNCHANGED <<pcT, runLimit, newCount, companies, passes,
                   signal_history, today, notTriageVars>>

\* phase 2, no qualifying contact: nothing is written
Phase2NoContact ==
    /\ pcT = "phase2"
    /\ search.state = "returned"
    /\ ~qualifies(search.best_contact)
    /\ next_company
    /\ UNCHANGED <<pcT, runLimit, newCount, companies, passes, replaced,
                   storeVars, notTriageVars>>

\* phase 2 done: the pass ends
EndPass ==
    /\ pcT = "phase2"
    /\ pos > Len(companies)
    /\ pcT' = "ready"
    /\ passes' = passes + 1
    /\ UNCHANGED <<runLimit, newCount, companies, pos, search, replaced,
                   storeVars, notTriageVars>>

NextTriage ==
    \/ \E n \in 1..MaxLimit, ok \in BOOLEAN : StartPass(n, ok)
    \/ PassWithoutKey
    \/ \E res \in SearchResults : SearchRequest(res)
    \/ SearchRequestFails
    \/ \E ok \in BOOLEAN : Phase1Contact(ok)
    \/ \E ok \in BOOLEAN : Phase1NoContact(ok)
    \/ \E ok \in BOOLEAN : StartPhase2(ok)
    \/ SkipPhase2
    \/ \E ok \in BOOLEAN : Phase2Contact(ok)
    \/ Phase2NoContact
    \/ EndPass

SpecTriage == InitTriage /\ [][NextTriage]_vars

\* the passes in which every update of company_master succeeds (the reads of
\* a pass can still fail)
NextTriageStoreUp ==
    \/ \E n \in 1..MaxLimit, ok \in BOOLEAN : StartPass(n, ok)
    \/ PassWithoutKey
    \/ \E res \in SearchResults : SearchRequest(res)
    \/ SearchRequestFails
    \/ Phase1Contact(TRUE)
    \/ Phase1NoContact(TRUE)
    \/ \E ok \in BOOLEAN : StartPhase2(ok)
    \/ SkipPhase2
    \/ Phase2Contact(TRUE)
    \/ Phase2NoContact
    \/ EndPass

SpecTriageStoreUp == InitTriage /\ [][NextTriageStoreUp]_vars

(***************************************************************************)
(* Contact triage of linkedin_xray_search_v2.py: run_optimized_search      *)
(***************************************************************************)
\* v2: serpapi_search scores its results with the score_title of v2
new_contact_v2(name, title, link) ==
    [name |-> name, title |-> title, linkedin_url |-> link, score |-> score_title_v2(title)]

serpapi_search_v2(items) ==
    sort_contacts_from([i \in 1..Len(items) |->
                          new_contact_v2(items[i].name, items[i].title, items[i].link)],
                       1, <<>>)

SearchResultsV2 == {serpapi_search_v2(items) : items \in ResponseItems}

\* .limit(150) of get_companies_needing_research
NeedsResearchCap == 150

\* company_name ILIKE '%name%'
ilike_contains(company_name, name) == contains(lower(company_name), lower(name))

\* the update dict of save_contact (v2): no xray_search_date, the email only
\* with a domain
contact_update_v2(contact, pattern, website) ==
    LET domain == extract_domain(website)
        email == IF domain # Null THEN generate_email(contact.name, pattern, domain)
                 ELSE Null
        update == [c \in {"primary_contact_name", "primary_contact_title",
                          "primary_contact_linkedin"} |->
                     CASE c = "primary_contact_name"  -> Some(contact.name)
                       [] c = "primary_contact_title" -> Some(contact.title)
                       [] OTHER                       -> Some(contact.linkedin_url)]
    IN  IF email # Null
        THEN [c \in DOMAIN update \cup {"primary_contact_email"} |->
                IF c = "primary_contact_email" THEN email ELSE update[c]]
        ELSE update

\* save_contact(company_name, contact, pattern, website) of v2 when the
\* update succeeds: update(...).ilike('company_name', '%company_name%')
save_contact_v2(rows, company_name, contact, pattern, website) ==
    LET update == contact_update_v2(contact, pattern, website)
    IN  {IF ilike_contains(r.company_name, company_name)
         THEN [c \in DOMAIN r |-> IF c \in DOMAIN update THEN update[c] ELSE r[c]]
         ELSE r : r \in rows}

\* the rows get_companies_needing_research asks the store for: hot, pattern
\* known
research_rows(rows, history) ==
    {r \in rows : /\ r.id \in hot_company_ids(history)
                  /\ r.hunter_email_pattern # Null}

\* get_companies_needing_research(limit), given the rows the capped query
\* returned: those whose title scores under 60, by priority
get_companies_needing_research(returned_rows, history, n) ==
    take(sort_by_rank({r \in returned_rows :
                         score_title_v2(or_empty(r.primary_contact_title)) < 60},
                      history), n)

\* what search_company_contacts can return besides None: a result scoring
\* at least 60
SearchReturnsV2 ==
    {c \in UNION {{res[i] : i \in 1..Len(res)} : res \in SearchResultsV2} : c.score >= 60}

InitTriageV2 ==
    /\ IdleScore
    /\ IdleNorm
    /\ IdleResolve
    /\ IdleSignal
    /\ IdleBatch
    /\ IdleMacro
    /\ IdleTitle
    /\ IdleSearch
    /\ IdleRun
    /\ IdleRetry
    /\ \E k \in Stores :
         /\ company_master =
              {triage_row(i, store_profile(k, i).website, store_profile(k, i).pattern,
                          store_profile(k, i).name, store_profile(k, i).title,
                          store_profile(k, i).email) : i \in TriageCompanies}
         /\ signal_history = {tier_row(i, store_profile(k, i).tier) : i \in TriageCompanies}
    /\ today = FirstDay
    /\ pcT = "v2ready"
    /\ runLimit = 0
    /\ newCount = 0
    /\ companies = <<>>
    /\ pos = 0
    /\ search = NoSearch
    /\ passes = 0
    /\ replaced = {}

\* a run starts: SERPAPI_KEY is set, get_companies_needing_research(limit)
\* returns (an exception in it gives the empty list); with no company the run
\* returns at once
StartRunV2(n, ok) ==
    /\ pcT = "v2ready"
    /\ passes < MaxPasses
    /\ \E returned_rows \in
            IF ok THEN limited(research_rows(company_master, signal_history),
                               NeedsResearchCap)
            ELSE {{}} :
         companies' = get_companies_needing_research(returned_rows, signal_history, n)
    /\ runLimit' = n
    /\ newCount' = Len(companies')
    /\ pos' = 1
    /\ pcT' = IF companies' # <<>> THEN "v2loop" ELSE "v2ready"
    /\ passes' = IF companies' # <<>> THEN passes ELSE passes + 1
    /\ UNCHANGED <<search, replaced, storeVars, notTriageVars>>

\* a run without SERPAPI_KEY returns at once
RunWithoutKeyV2 ==
    /\ pcT = "v2ready"
    /\ passes < MaxPasses
    /\ passes' = passes + 1
    /\ UNCHANGED <<pcT, runLimit, newCount, companies, pos, search, replaced,
                   storeVars, notTriageVars>>

\* search_company_contacts returned a qualifying contact: save_contact (ok:
\* the update succeeds)
ContactFoundV2(contact, ok) ==
    /\ pcT = "v2loop"
    /\ pos <= Len(companies)
    /\ LET co == current_company
       IN  IF ok
           THEN /\ company_master' = save_contact_v2(company_master, co.company_name, contact,
                                                     co.hunter_email_pattern, co.website)
                /\ replaced' = replaced \cup overwrite_entry(co.id, contact)
           ELSE UNCHANGED <<company_master, replaced>>
    /\ pos' = pos + 1
    /\ UNCHANGED <<pcT, runLimit, newCount, companies, search, passes,
                   signal_history, today, notTriageVars>>

\* search_company_contacts returned None: the company is skipped
NoContactV2 ==
    /\ pcT = "v2loop"
    /\ pos <= Len(companies)
    /\ pos' = pos + 1
    /\ UNCHANGED <<pcT, runLimit, newCount, companies, search, passes, replaced,
                   storeVars, notTriageVars>>

\* the loop is over: the summary is printed and the run ends
EndRunV2 ==
    /\ pcT = "v2loop"
    /\ pos > Len(companies)
    /\ pcT' = "v2ready"
    /\ passes' = passes + 1
    /\ UNCHANGED <<runLimit, newCount, companies, pos, search, replaced,
                   storeVars, notTriageVars>>

NextTriageV2 ==
    \/ \E n \in 1..MaxLimit, ok \in BOOLEAN : StartRunV2(n, ok)
    \/ RunWithoutKeyV2
    \/ \E contact \in SearchReturnsV2, ok \in BOOLEAN : ContactFoundV2(contact, ok)
    \/ NoContactV2
    \/ EndRunV2

SpecTriageV2 == InitTriageV2 /\ [][NextTriageV2]_vars

(***************************************************************************)
(* Claims on the contact triage (SpecTriage)                               *)
(***************************************************************************)
\* the contact columns of a company_master row
contact_of(r) ==
    <<r.primary_contact_name, r.primary_contact_title, r.primary_contact_linkedin>>

\* the relevance score of the contact a row stores
stored_score(r) == score_title(or_empty(r.primary_contact_title))

\* C2: over any sequence of passes of run_progressive_enrichment a stored
\* contact is never removed, and it is replaced only by a candidate that
\* scores strictly higher than the stored contact's title: every step leaves
\* each stored contact as it is or puts a strictly higher-scoring one in its
\* place, and every overwrite made so far was by a strictly higher candidate
C2_MonotonicUpgrade ==
    /\ [](\A e \in replaced : e.new_score > e.old_score)
    /\ [][\A r \in company_master :
            r.primary_contact_name # Null =>
              \E q \in company_master' :
                 /\ q.id = r.id
                 /\ q.primary_contact_name # Null
                 /\ \/ contact_of(q) = contact_of(r)
                    \/ stored_score(q) > stored_score(r)]_vars

\* a pass has replaced a stored generic manager (30) by a plant manager (100),
\* and the store holds the plant manager
C2_Witness ==
    /\ \E e \in replaced : e.old_score = 30 /\ e.new_score = 100
    /\ \E r \in company_master :
         /\ r.primary_contact_title = Some(TITLE_PLANT)
         /\ r.xray_search_date # Null

(***************************************************************************)
(* Claims on the triage state of an organization                           *)
(***************************************************************************)
\* the row of company `id` after the step
stored_row_after(id) == CHOOSE r \in company_master' : r.id = id

\* the step completes the attempt on the company the loop is at: search_company
\* has returned and the loop moves on
AttemptCompleted ==
    /\ pcT \in {"phase1", "phase2"}
    /\ pos <= Len(companies)
    /\ search.state = "returned"
    /\ pos' = pos + 1

\* C18: every triage attempt on an organization sets the organization's
\* xray_search_date, whatever the outcome (contact saved, no qualifying
\* candidate, candidate not better than the stored contact), in the
\* no-contact phase and in the wrong-contact phase.
C18_AttemptSetsSearchDate ==
    [][AttemptCompleted =>
         stored_row_after(current_company.id).xray_search_date = Some(today)]_vars

\* the same for the no-contact phase alone
C18_Phase1SetsSearchDate ==
    [][AttemptCompleted /\ pcT = "phase1" =>
         stored_row_after(current_company.id).xray_search_date = Some(today)]_vars

\* a searched company without a contact: xray_search_date set, no contact
\* stored (SEARCHED_NO_MATCH)
searched_no_match(r) == r.xray_search_date # Null /\ r.primary_contact_name = Null

\* the step starts a phase of a pass and hands the loop the list `companies'`
SelectionMade ==
    \/ pcT = "ready" /\ pcT' = "phase1"
    \/ pcT = "phase1" /\ pcT' = "phase2"

\* C19: an organization searched without a qualifying candidate
\* (xray_search_date set, no contact stored) is not selected for search again
\* by a later pass.
C19_SearchedNotSelectedAgain ==
    [][SelectionMade =>
         \A i \in 1..Len(companies') :
            ~searched_no_match(stored_row(companies'[i].id))]_vars

\* a stored contact that is a low-tier match: title score in [60, 80)
low_tier_match(r) ==
    /\ r.primary_contact_name # Null
    /\ stored_score(r) >= 60
    /\ stored_score(r) < 80

\* the companies a pass with room for every company would search, in either
\* phase, from the store as it is
selectable_ids ==
    LET phase1 == get_new_companies(new_company_rows(company_master, signal_history),
                                    signal_history, Cardinality(company_master))
        phase2 == get_companies_with_wrong_contacts(
                      contact_rows(company_master, signal_history),
                      signal_history, Cardinality(company_master))
    IN  {phase1[i].id : i \in 1..Len(phase1)} \cup {phase2[i].id : i \in 1..Len(phase2)}

\* C20: an organization whose stored contact is a low-tier match remains
\* eligible for an upgrade: a later pass can select it.  Stated of the
\* contacts a pass has stored (xray_search_date set), whose companies are hot
\* leads with an email pattern, once that pass is over.
C20_LowTierEligible ==
    pcT = "ready" =>
        \A r \in company_master :
            /\ low_tier_match(r)
            /\ r.xray_search_date # Null
            /\ r.id \in hot_company_ids(signal_history)
            /\ r.hunter_email_pattern # Null
            => r.id \in selectable_ids

\* the contact fields of a company_master row
contact_fields(r) ==
    <<r.primary_contact_name, r.primary_contact_title, r.primary_contact_linkedin,
      r.primary_contact_email>>

\* the step ends the iteration of a triage loop (v2 or v3) on the company
\* the loop is at
LoopMovesOn ==
    /\ pcT \in {"phase1", "phase2", "v2loop"}
    /\ pos <= Len(companies)
    /\ pos' = pos + 1

\* C21: persisting the contact found for organization X changes the contact
\* fields of X's record only: every step of a triage loop (v2 or v3) that
\* completes the attempt on X leaves the contact fields of every other
\* organization as they were, also of one whose name contains X's name.
C21_OnlyOwnRecord ==
    [][LoopMovesOn =>
         (\A r \in company_master :
            r.id # current_company.id =>
               \E q \in company_master' :
                  q.id = r.id /\ contact_fields(q) = contact_fields(r))]_vars

(***************************************************************************)
(* Macro modifier: MacroPipeline._calculate_trend and get_macro_modifier   *)
(* A percentage change is the exact fraction num / den, den # 0; means of  *)
(* three observations are kept as their sums (the factor 3 cancels).       *)
(***************************************************************************)
\* data.iloc[a:b].sum() over the positions a..b of the series
RECURSIVE sum_range(_, _, _)
sum_range(data, a, b) ==
    IF a > b THEN 0 ELSE data[a] + sum_range(data, a + 1, b)

\* pct >= p / q for a fraction pct and q > 0
pct_ge(pct, p, q) ==
    IF pct.den > 0 THEN pct.num * q >= p * pct.den ELSE pct.num * q <= p * pct.den

\* pct > p / q for a fraction pct and q > 0
pct_gt(pct, p, q) ==
    IF pct.den > 0 THEN pct.num * q > p * pct.den ELSE pct.num * q < p * pct.den

\* pct < p / q for a fraction pct and q > 0
pct_lt(pct, p, q) ==
    IF pct.den > 0 THEN pct.num * q < p * pct.den ELSE pct.num * q > p * pct.den

\* _calculate_trend(data): direction and pct_change
calculate_trend(data) ==
    IF Len(data) < 6 THEN [direction |-> "unknown", pct_change |-> [num |-> 0, den |-> 1]]
    ELSE LET current_sum  == sum_range(data, Len(data) - 2, Len(data))
             previous_sum == sum_range(data, Len(data) - 5, Len(data) - 3)
             pct_change   == IF previous_sum = 0 THEN [num |-> 0, den |-> 1]
                             ELSE [num |-> current_sum - previous_sum, den |-> previous_sum]
         IN  [direction |-> IF pct_gt(pct_change, 5, 100) THEN "expanding"
                            ELSE IF pct_lt(pct_change, -5, 100) THEN "contracting"
                            ELSE "stable",
              pct_change |-> pct_change]

\* get_macro_modifier(), given what _fetch_series returned (hundredths)
get_macro_modifier(data) ==
    IF data = Null \/ Len(data[1]) < 6 THEN 100
    ELSE LET pct_change == calculate_trend(data[1]).pct_change
         IN  IF pct_gt(pct_change, 10, 100) THEN 120
             ELSE IF pct_gt(pct_change, 5, 100) THEN 110
             ELSE IF pct_gt(pct_change, -5, 100) THEN 100
             ELSE IF pct_gt(pct_change, -10, 100) THEN 90
             ELSE 80

(***************************************************************************)
(* SpecMacro: get_macro_modifier on a freight series                       *)
(***************************************************************************)
\* observations of the freight index
ObsValues == {0, 90, 100, 105, 110}

\* the series _fetch_series can return: up to MaxObs observations
FreightSeries == UNION {[1..n -> ObsValues] : n \in 0..MaxObs}

InitMacro ==
    /\ IdleScore
    /\ IdleNorm
    /\ IdleResolve
    /\ IdleSignal
    /\ IdleBatch
    /\ IdleTriage
    /\ IdleTitle
    /\ IdleSearch
    /\ IdleRun
    /\ IdleRetry
    /\ company_master = {}
    /\ signal_history = {}
    /\ today = FirstDay
    /\ pcM = "start"
    /\ freight_data \in {Null} \cup {Some(d) : d \in FreightSeries}
    /\ modifier = 0

\* modifier = pipeline.get_macro_modifier()
GetMacroModifier ==
    /\ pcM = "start"
    /\ modifier' = get_macro_modifier(freight_data)
    /\ pcM' = "done"
    /\ UNCHANGED <<freight_data, storeVars, notMacroVars>>

NextMacro == GetMacroModifier

SpecMacro == InitMacro /\ [][NextMacro]_vars

\* the observations get_macro_modifier was called on (none for a failed fetch)
Observations == IF freight_data = Null THEN <<>> ELSE freight_data[1]

\* three times the mean of the last 3 observations and of the 3 before
LastSum == sum_range(Observations, Len(Observations) - 2, Len(Observations))
PriorSum == sum_range(Observations, Len(Observations) - 5, Len(Observations) - 3)

\* C14: get_macro_modifier maps pctChange = (mean of the last 3 observations -
\* mean of the 3 before) / mean of the 3 before, 0 when that prior mean is 0,
\* to 1.2 above 0.10, else 1.1 above 0.05, else 1.0 above -0.05, else 0.9 above
\* -0.10, else 0.8; the boundaries 0.10, 0.05, -0.05, -0.10 fall in the lower
\* band; fewer than 6 observations give 1.0; the result is in [0.8, 1.2].
\* (The observations of the model are not negative, so pctChange > p/100 is
\* 100 * (last - prior) > p * prior.)
C14_ModifierBands ==
    pcM = "done" =>
        LET d == 100 * (LastSum - PriorSum)
        IN  /\ modifier >= 80 /\ modifier <= 120
            /\ Len(Observations) < 6 => modifier = 100
            /\ (Len(Observations) >= 6 /\ PriorSum = 0) => modifier = 100
            /\ (Len(Observations) >= 6 /\ PriorSum > 0) =>
                  /\ modifier = IF d > 10 * PriorSum THEN 120
                                ELSE IF d > 5 * PriorSum THEN 110
                                ELSE IF d > (-5) * PriorSum THEN 100
                                ELSE IF d > (-10) * PriorSum THEN 90
                                ELSE 80
                  /\ d = 10 * PriorSum => modifier = 110
                  /\ d = 5 * PriorSum => modifier = 100
                  /\ d = (-5) * PriorSum => modifier = 90
                  /\ d = (-10) * PriorSum => modifier = 80

\* seven observations, the 3 before averaging 100 and the last 3 averaging 110:
\* pctChange is exactly 0.10 and the modifier is 1.1
C14_Witness ==
    /\ pcM = "done"
    /\ Len(Observations) = 7
    /\ PriorSum = 300
    /\ LastSum = 330
    /\ modifier = 110

(***************************************************************************)
(* SpecTitle: score_title (v3 and v2) on a title                           *)
(***************************************************************************)
\* str.upper() on one character, and on a string
upper_char(c) ==
    IF \E i \in 1..Len(LowerCase) : LowerCase[i] = c
    THEN UpperCase[CHOOSE i \in 1..Len(LowerCase) : LowerCase[i] = c]
    ELSE c

upper(str) == [i \in 1..Len(str) |-> upper_char(str[i])]

\* titles: an optional qualifier, a job title, as written or in capitals
TitlePrefixes ==
    {<<>>,
     <<"S", "e", "n", "i", "o", "r", " ">>,
     <<"A", "s", "s", "i", "s", "t", "a", "n", "t", " ">>,
     <<"S", "a", "l", "e", "s", " ">>}

TitleCores ==
    {<<"P", "l", "a", "n", "t", " ", "M", "a", "n", "a", "g", "e", "r">>,
     <<"P", "r", "o", "c", "u", "r", "e", "m", "e", "n", "t", " ", "M", "a", "n", "a", "g", "e", "r">>,
     <<"S", "o", "u", "r", "c", "i", "n", "g", " ", "L", "e", "a", "d">>,
     <<"O", "p", "e", "r", "a", "t", "i", "o", "n", "s", " ", "M", "a", "n", "a", "g", "e", "r">>,
     <<"P", "r", "o", "d", "u", "c", "t", "i", "o", "n", " ", "M", "a", "n", "a", "g", "e", "r">>,
     <<"W", "a", "r", "e", "h", "o", "u", "s", "e", " ", "M", "a", "n", "a", "g", "e", "r">>,
     <<"H", "R", " ", "D", "i", "r", "e", "c", "t", "o", "r">>,
     <<"T", "a", "l", "e", "n", "t", " ", "A", "c", "q", "u", "i", "s", "i", "t", "i", "o", "n">>,
     <<"P", "u", "r", "c", "h", "a", "s", "i", "n", "g", " ", "a", "n", "d", " ", "P", "l", "a", "n", "t", " ", "M", "a", "n", "a", "g", "e", "r">>,
     <<"O", "f", "f", "i", "c", "e", " ", "M", "a", "n", "a", "g", "e", "r">>,
     <<"D", "i", "r", "e", "c", "t", "o", "r">>,
     <<"O", "w", "n", "e", "r">>,
     <<>>}

TitleInputs ==
    {p \o c : p \in TitlePrefixes, c \in TitleCores}
    \cup {upper(p \o c) : p \in TitlePrefixes, c \in TitleCores}

InitTitle ==
    /\ IdleSearch
    /\ IdleRun
    /\ IdleRetry
    /\ IdleScore
    /\ IdleNorm
    /\ IdleResolve
    /\ IdleSignal
    /\ IdleBatch
    /\ IdleTriage
    /\ IdleMacro
    /\ company_master = {}
    /\ signal_history = {}
    /\ today = FirstDay
    /\ pcL = "start"
    /\ titleIn \in TitleInputs
    /\ titleScore = [v3 |-> 0, v2 |-> 0]

\* score = score_title(job_title), in each script
ScoreTitle ==
    /\ pcL = "start"
    /\ titleScore' = [v3 |-> score_title(titleIn), v2 |-> score_title_v2(titleIn)]
    /\ pcL' = "done"
    /\ UNCHANGED <<titleIn, storeVars, notTitleVars>>

NextTitle == ScoreTitle

SpecTitle == InitTitle /\ [][NextTitle]_vars

\* the inclusion categories of each script, in the order of the claim
CategoriesV3 ==
    <<[terms |-> Tier1Terms, score |-> 100], [terms |-> Tier2Terms, score |-> 90],
      [terms |-> Tier3Terms, score |-> 80], [terms |-> Tier4Terms, score |-> 75],
      [terms |-> Tier5Terms, score |-> 70], [terms |-> Tier6Terms, score |-> 60]>>

CategoriesV2 ==
    <<[terms |-> Tier1TermsV2, score |-> 100], [terms |-> Tier2TermsV2, score |-> 90],
      [terms |-> Tier3TermsV2, score |-> 80], [terms |-> Tier4TermsV2, score |-> 75],
      [terms |-> Tier5TermsV2, score |-> 70], [terms |-> Tier6TermsV2, score |-> 60]>>

\* the title holds one of the terms, whatever the case of its letters
holds_term(title, terms) == \E x \in terms : contains(lower(title), lower(x))

\* the score C15 gives a title: 0 with an exclusion term, else the score of
\* the first category with a term in the title, else 30 for a generic
\* manager/director word, else 10
claimed_score(title, bad, categories) ==
    LET matching == {k \in 1..Len(categories) : holds_term(title, categories[k].terms)}
    IN  IF holds_term(title, {bad[b] : b \in 1..Len(bad)}) THEN 0
        ELSE IF matching # {}
             THEN categories[CHOOSE k \in matching : \A j \in matching : k <= j].score
        ELSE IF holds_term(title, GenericTerms) THEN 30
        ELSE 10

\* C15 as stated: score_title is 0 for any title with an exclusion term, even
\* one that also holds an inclusion term; otherwise 100/90/80/75/70/60 by the
\* first matching category, 30 for a generic manager/director word, and 10
\* for anything else.
C15_ScoreByCategory ==
    pcL = "done" =>
        /\ titleScore.v3 = claimed_score(titleIn, BAD_TITLES, CategoriesV3)
        /\ titleScore.v2 = claimed_score(titleIn, BAD_TITLES_V2, CategoriesV2)

\* C15 amended: as stated for every title that is not empty; the empty title
\* scores 0.
C15_ScoreByCategoryOrEmpty ==
    pcL = "done" =>
        /\ titleIn = <<>> => titleScore = [v3 |-> 0, v2 |-> 0]
        /\ titleIn # <<>> =>
              /\ titleScore.v3 = claimed_score(titleIn, BAD_TITLES, CategoriesV3)
              /\ titleScore.v2 = claimed_score(titleIn, BAD_TITLES_V2, CategoriesV2)

\* a title with both the exclusion term "sales" and the inclusion term
\* "operations manager" was scored 0 by both scripts
C15_Witness ==
    /\ pcL = "done"
    /\ titleIn = TITLE_SALESOPS
    /\ holds_term(titleIn, Tier3Terms)
    /\ titleScore = [v3 |-> 0, v2 |-> 0]

(***************************************************************************)
(* SpecSearch: one call of the triage search                               *)
(* (search_company of v3, search_company_contacts of v2)                   *)
(***************************************************************************)
\* the search titles of linkedin_xray_search_v2.py
QT_PLANT == <<"p", "l", "a", "n", "t", " ", "m", "a", "n", "a", "g", "e", "r">>
QT_OPS == <<"o", "p", "e", "r", "a", "t", "i", "o", "n", "s", " ", "m", "a", "n", "a", "g", "e", "r">>
QT_PROC == <<"p", "r", "o", "c", "u", "r", "e", "m", "e", "n", "t", " ", "m", "a", "n", "a", "g", "e", "r">>
QT_WARE == <<"w", "a", "r", "e", "h", "o", "u", "s", "e", " ", "m", "a", "n", "a", "g", "e", "r">>
QT_PROD == <<"p", "r", "o", "d", "u", "c", "t", "i", "o", "n", " ", "m", "a", "n", "a", "g", "e", "r">>
QT_DIST == <<"d", "i", "s", "t", "r", "i", "b", "u", "t", "i", "o", "n", " ", "m", "a", "n", "a", "g", "e", "r">>
QT_LOGI == <<"l", "o", "g", "i", "s", "t", "i", "c", "s", " ", "m", "a", "n", "a", "g", "e", "r">>
QT_FACI == <<"f", "a", "c", "i", "l", "i", "t", "y", " ", "m", "a", "n", "a", "g", "e", "r">>

\* INDUSTRY_SEARCH_MAP, in the order of its items()
INDUSTRY_SEARCH_MAP ==
    <<[key |-> <<"m", "a", "n", "u", "f", "a", "c", "t", "u", "r", "i", "n", "g">>,
       titles |-> <<QT_PLANT, QT_OPS, QT_PROD>>],
      [key |-> <<"d", "i", "s", "t", "r", "i", "b", "u", "t", "i", "o", "n">>,
       titles |-> <<QT_WARE, QT_DIST, QT_OPS>>],
      [key |-> <<"l", "o", "g", "i", "s", "t", "i", "c", "s">>,
       titles |-> <<QT_WARE, QT_LOGI, QT_OPS>>],
      [key |-> <<"f", "o", "o", "d">>,
       titles |-> <<QT_PLANT, QT_PROD, QT_OPS>>],
      [key |-> <<"w", "a", "r", "e", "h", "o", "u", "s", "e">>,
       titles |-> <<QT_WARE, QT_FACI, QT_OPS>>],
      [key |-> <<"r", "e", "t", "a", "i", "l">>,
       titles |-> <<QT_DIST, QT_OPS, QT_PROC>>]>>

\* max_searches of search_company_contacts
MaxSearches == 4

\* the industry argument of search_company_contacts: None or a name
Industries ==
    {Null,
     Some(<<"F", "o", "o", "d", " ", "M", "a", "n", "u", "f", "a", "c", "t", "u", "r", "i", "n", "g">>),
     Some(<<"L", "o", "g", "i", "s", "t", "i", "c", "s">>),
     Some(<<"R", "e", "t", "a", "i", "l">>),
     Some(<<"W", "a", "r", "e", "h", "o", "u", "s", "e", " ", "D", "i", "s", "t", "r", "i", "b", "u", "t", "i", "o", "n">>),
     Some(<<"S", "o", "f", "t", "w", "a", "r", "e">>)}

\* v2: the search sequence search_company_contacts picks for an industry
search_titles_v2(industry) ==
    IF industry # Null /\ industry[1] # <<>>
    THEN LET industry_lower == lower(industry[1])
             hits == {k \in 1..Len(INDUSTRY_SEARCH_MAP) :
                        contains(industry_lower, INDUSTRY_SEARCH_MAP[k].key)}
         IN  IF hits # {}
             THEN INDUSTRY_SEARCH_MAP[CHOOSE k \in hits : \A j \in hits : k <= j].titles
             ELSE <<QT_PLANT, QT_OPS, QT_PROC>>
    ELSE <<QT_PLANT, QT_OPS, QT_PROC, QT_WARE>>

\* the priority sequence a call draws its titles from
priority_sequence(c) ==
    IF c.script = "v3" THEN SEARCH_TITLES ELSE search_titles_v2(c.industry)

\* the priority sequence cut to a single title
first_title_only(titles, n) == SubSeq(titles, 1, IF 1 < n THEN 1 ELSE n)

\* SEARCH_TITLES[:4]
first_titles(titles, n) == SubSeq(titles, 1, IF Len(titles) < n THEN Len(titles) ELSE n)

\* the titles the loop of a call iterates over
loop_titles(c) ==
    IF c.script = "v3" THEN first_titles(SEARCH_TITLES, SearchesPerCompany)
    ELSE search_titles_v2(c.industry)

Calls ==
    {[script |-> "v3", industry |-> Null]}
    \cup {[script |-> "v2", industry |-> i] : i \in Industries}

results_of(c) == IF c.script = "v3" THEN SearchResults ELSE SearchResultsV2

InitSearch ==
    /\ IdleScore
    /\ IdleNorm
    /\ IdleResolve
    /\ IdleSignal
    /\ IdleBatch
    /\ IdleTriage
    /\ IdleMacro
    /\ IdleTitle
    /\ IdleRun
    /\ IdleRetry
    /\ company_master = {}
    /\ signal_history = {}
    /\ today = FirstDay
    /\ pcQ = "running"
    /\ call \in Calls
    /\ sq = [next |-> 1, best_contact |-> Null, best_score |-> 0, searches_made |-> 0]
    /\ hist = [asked |-> <<>>, seen |-> {}, excellent |-> Null, excellent_at |-> 0]
    /\ answer = Null

\* the first result of a response, in the order of the list, that scores >= 80
first_excellent(res) ==
    LET high == {i \in 1..Len(res) : res[i].score >= 80}
    IN  IF high = {} THEN Null
        ELSE Some(res[CHOOSE i \in high : \A j \in high : i <= j])

\* the loop goes on after the request at hand only if it has not returned, a
\* title is left, and (v2) searches_made stays below max_searches
loop_ends(acc) ==
    \/ acc.returned
    \/ sq.next = Len(loop_titles(call))
    \/ call.script = "v2" /\ sq.searches_made + 1 >= MaxSearches

\* one request of the loop has been answered and its results scanned to acc
request_done(res, acc) ==
    /\ sq' = [next |-> IF loop_ends(acc) THEN sq.next ELSE sq.next + 1,
              best_contact |-> acc.best_contact,
              best_score |-> acc.best_score,
              searches_made |-> sq.searches_made + 1]
    /\ hist' = [asked |-> Append(hist.asked, loop_titles(call)[sq.next]),
                seen |-> hist.seen \cup {res[i] : i \in 1..Len(res)},
                excellent |-> IF hist.excellent # Null THEN hist.excellent
                              ELSE first_excellent(res),
                excellent_at |-> IF hist.excellent = Null /\ first_excellent(res) # Null
                                 THEN sq.searches_made + 1 ELSE hist.excellent_at]
    /\ pcQ' = IF loop_ends(acc) THEN "returned" ELSE "running"
    /\ answer' = IF loop_ends(acc) THEN acc.best_contact ELSE Null

\* one request that succeeds with results res
TitleRequest(res) ==
    /\ pcQ = "running"
    /\ request_done(res, scan_results(res, 1, [best_contact |-> sq.best_contact,
                                               best_score |-> sq.best_score,
                                               returned |-> FALSE]))
    /\ UNCHANGED <<call, storeVars, notSearchVars>>

\* one request that returns {"error": ...}
TitleRequestFails ==
    /\ pcQ = "running"
    /\ request_done(<<>>, [best_contact |-> sq.best_contact,
                           best_score |-> sq.best_score, returned |-> FALSE])
    /\ UNCHANGED <<call, storeVars, notSearchVars>>

NextSearch ==
    \/ \E res \in results_of(call) : TitleRequest(res)
    \/ TitleRequestFails

SpecSearch == InitSearch /\ [][NextSearch]_vars

\* C16: the first time a candidate scoring >= 80 is encountered the search
\* returns that candidate, and no request is issued after the one that showed
\* it; when the first title searched shows one, exactly one request is made.
C16_EarlyReturn ==
    hist # Null /\ hist.excellent # Null =>
        /\ pcQ = "returned"
        /\ answer = hist.excellent
        /\ sq.searches_made = hist.excellent_at
        /\ Len(hist.asked) = hist.excellent_at
        /\ hist.excellent_at = 1 => sq.searches_made = 1 /\ hist.asked = <<loop_titles(call)[1]>>

\* a call over several titles returned the tier-1 candidate its first request
\* showed
C16_Witness ==
    /\ pcQ = "returned"
    /\ hist.excellent # Null
    /\ hist.excellent_at = 1
    /\ answer = hist.excellent
    /\ Len(loop_titles(call)) > 1

\* the candidates scoring >= 60 among those the requests of the call showed
good_seen == {c \in hist.seen : c.score >= 60}

\* what C17 says of the value returned: the best of the candidates scoring
\* >= 60 that were found, None without one, never one below 60
returns_best_good ==
    /\ good_seen = {} => answer = Null
    /\ good_seen # {} =>
          /\ answer # Null
          /\ answer[1] \in good_seen
          /\ \A c \in good_seen : c.score <= answer[1].score
    /\ answer # Null => answer[1].score >= 60

\* C17 as stated: with no candidate scoring >= 80 the search examines every
\* title of the fixed priority sequence and returns the highest-scoring
\* candidate among those scoring >= 60 found across it, or none; never one
\* below 60.
C17_WholeSequence ==
    pcQ = "returned" /\ hist.excellent = Null =>
        /\ hist.asked = priority_sequence(call)
        /\ returns_best_good

\* C17 amended: the titles examined are the first SearchesPerCompany (4) of
\* the priority sequence, all of it when it is no longer than that.
C17_FirstFourTitles ==
    pcQ = "returned" /\ hist.excellent = Null =>
        /\ hist.asked = SubSeq(priority_sequence(call), 1,
                               IF Len(priority_sequence(call)) < 4
                               THEN Len(priority_sequence(call)) ELSE 4)
        /\ returns_best_good

\* a v3 call that met no tier-1 candidate returned the best of two candidates
\* scoring >= 60 that different requests showed
C17_Witness ==
    /\ pcQ = "returned"
    /\ call.script = "v3"
    /\ hist.excellent = Null
    /\ sq.searches_made = SearchesPerCompany
    /\ Cardinality(good_seen) = 2
    /\ answer # Null
    /\ answer[1].score = 75

(***************************************************************************)
(* Specification SpecRunAll: the run-all entry point (run_all_pipelines.py  *)
(* main): validate_environment, run_pipelines, calculate_scores             *)
(***************************************************************************)
\* validate_environment() whose weight check only warns
validate_environment_lenient(cfg, w) == cfg.database_configured

\* validate_environment(): False when the database is not configured or the
\* weights do not sum to 1.0; a missing Gemini key only warns
validate_environment(cfg, w) ==
    /\ cfg.database_configured
    /\ validate_weights(w)

\* the last six observations _get_mock_data generates for the freight index,
\* in thousandths, before its random noise
MockFreightTail == <<1158, 1142, 1137, 1147, 1170, 1200>>

\* np.random.normal(0, 0.02, periods): the noise on the three earlier and on
\* the three later observations, in thousandths
MockNoise == {-30, 0, 30}

\* the series _get_mock_data can return
MockSeries ==
    {[i \in 1..6 |-> MockFreightTail[i] + (IF i <= 3 THEN a ELSE b)] : a, b \in MockNoise}

\* the series FRED can return: flat, rising 10%, rising 20%, falling 10%
RealSeries ==
    {[i \in 1..6 |-> IF i <= 3 THEN 100 ELSE last] : last \in {100, 110, 120, 90}}

\* how _fetch_series can end for a pipeline: with FRED configured the API
\* answers or raises (mock data instead); without it mock data at once;
\* "raised" is an exception that leaves MacroPipeline
fetch_outcomes(cfg) ==
    IF cfg.fred_configured THEN {"real", "mock_error", "raised"}
    ELSE {"mock_unconfigured", "raised"}

\* what _fetch_series returns for an outcome
fetch_series(outcome) ==
    IF outcome = "real" THEN RealSeries ELSE MockSeries

\* the rows after save_signal_history for every company of ids, in id order
RECURSIVE append_all(_, _, _)
append_all(rows, ids, sig) ==
    IF ids = {} THEN rows
    ELSE LET i == CHOOSE x \in ids : \A y \in ids : x <= y
         IN  append_all(save_signal_history(rows, i, sig), ids \ {i}, sig)

\* score_all: score_company for every company in turn (the companies of ids
\* `todo`, in id order); each reads the latest snapshot, calculates and saves;
\* the results are sorted at the end
RECURSIVE score_all_from(_, _, _, _)
score_all_from(rows, cm, todo, acc) ==
    IF todo = {} THEN [history |-> rows, results |-> sort_by_score_desc(acc)]
    ELSE LET i  == CHOOSE x \in todo : \A y \in todo : x <= y
             co == CHOOSE c \in cm : c.id = i
             s  == CHOOSE x \in read_signals(rows, i) : TRUE
         IN  score_all_from(
                 save_signal_history(rows, i,
                     save_score_payload(calculate_score(s, weights), s, today)),
                 cm, todo \ {i}, Append(acc, score_result(co, s)))

\* the signal histories a run starts from: none; a snapshot of the day
\* before with macro modifier 1.2; a snapshot of today with macro modifier 0.9
RunHistories ==
    {{},
     {snapshot_row(1, 1, FirstDay - 1, [ExampleSignals EXCEPT !.macro_modifier = 120])},
     {snapshot_row(1, 1, FirstDay, [ExampleSignals EXCEPT !.macro_modifier = 90])}}

InitRunAll ==
    /\ pcS = "idle"
    /\ weights \in WeightConfigs
    /\ signals = ExampleSignals
    /\ result = NoResult
    /\ probe = NoProbe
    /\ engine = Null
    /\ IdleNorm
    /\ IdleResolve
    /\ IdleSignal
    /\ IdleBatch
    /\ IdleTriage
    /\ IdleMacro
    /\ IdleTitle
    /\ IdleSearch
    /\ IdleRetry
    /\ company_master = {org_row(1)}
    /\ signal_history \in RunHistories
    /\ today = FirstDay
    /\ pcR = "start"
    /\ config \in [database_configured : BOOLEAN, gemini_configured : BOOLEAN,
                   fred_configured : BOOLEAN]
    /\ fred = "none"
    /\ pipeline_results = Null
    /\ exit_code = Null

\* main: if not validate_environment(): sys.exit(1)
ValidateEnvironment ==
    /\ pcR = "start"
    /\ IF validate_environment(config, weights)
       THEN /\ pcR' = "validated"
            /\ exit_code' = exit_code
       ELSE /\ pcR' = "exited"
            /\ exit_code' = Some(1)
    /\ UNCHANGED <<config, fred, pipeline_results, scoreVars, storeVars, batchVars,
                   macroVars, notRunVars>>

\* run_pipelines: the macro pipeline computes the modifier (1.0 when the
\* pipeline raises); the Glassdoor pipeline, unless skipped, resolves the
\* companies it found and appends their sentiment
RunPipelines ==
    /\ pcR = "validated"
    /\ \E outcome \in fetch_outcomes(config) :
         /\ fred' = outcome
         /\ IF outcome = "raised"
            THEN /\ freight_data' = Null
                 /\ modifier' = 0
                 /\ pipeline_results' = [macro |-> FALSE, macro_modifier |-> 100]
            ELSE \E data \in fetch_series(outcome) :
                 /\ freight_data' = Some(data)
                 /\ modifier' = get_macro_modifier(Some(data))
                 /\ pipeline_results' = [macro |-> TRUE, macro_modifier |-> modifier']
    /\ \E skip_glassdoor \in BOOLEAN :
         \E found \in (IF skip_glassdoor THEN {{}} ELSE SUBSET Orgs) :
           /\ company_master' = company_master \cup {org_row(i) : i \in found}
           /\ signal_history' = append_all(signal_history, found, sentiment_payload(today, 34))
    /\ pcM' = "done"
    /\ pcR' = "collected"
    /\ UNCHANGED <<config, exit_code, today, scoreVars, batchVars, notRunVars>>

\* calculate_scores: engine = ScoringEngine(); results = engine.score_all(limit=500)
CalculateScores ==
    /\ pcR = "collected"
    /\ engine' = engine_init(weights)
    /\ LET run == score_all_from(signal_history, company_master,
                                 {c.id : c \in company_master}, <<>>)
       IN  /\ signal_history' = run.history
           /\ results' = run.results
    /\ pcR' = "done"
    /\ exit_code' = Some(0)
    /\ UNCHANGED <<config, fred, pipeline_results, pcS, weights, signals, result, probe,
                   company_master, today, pcB, batch, idx, threw, macroVars, notRunVars>>

\* calculate_scores: the query of score_all raises; nothing catches it in main
CalculateScoresRaises ==
    /\ pcR = "collected"
    /\ engine' = engine_init(weights)
    /\ pcR' = "exited"
    /\ exit_code' = Some(1)
    /\ UNCHANGED <<config, fred, pipeline_results, pcS, weights, signals, result, probe,
                   storeVars, batchVars, macroVars, notRunVars>>

NextRunAll ==
    \/ ValidateEnvironment
    \/ RunPipelines
    \/ CalculateScores
    \/ CalculateScoresRaises

SpecRunAll == InitRunAll /\ [][NextRunAll]_vars

\* the run did work: a pipeline ran, an engine was built or a result exists
run_worked ==
    \/ pipeline_results # Null
    \/ fred # "none"
    \/ engine # Null
    \/ results # <<>>

\* validate_environment() is about to return False
ValidationFails == pcR = "start" /\ ~validate_environment(config, weights)

\* C23: the run-all entry point validates the configuration (database
\* configured, weights summing to 1.0) before any work: while validation has
\* not passed nothing has run, and a failed validation ends the process with
\* exit status 1 leaving the companies, the signal history, the pipeline
\* results and the score list as they were
C23_ValidateBeforeWork ==
    /\ [](run_worked => (config.database_configured /\ validate_weights(weights)))
    /\ [](pcR = "start" => ~run_worked)
    /\ [][ValidationFails =>
            (/\ pcR' = "exited"
             /\ exit_code' = Some(1)
             /\ UNCHANGED <<storeVars, pipeline_results, results, engine, fred>>)]_vars
    /\ []((pcR = "exited" /\ ~(config.database_configured /\ validate_weights(weights)))
            => (exit_code = Some(1) /\ ~run_worked /\ signal_history \in RunHistories
                /\ company_master = {org_row(1)}))

C23_Witness ==
    /\ pcR = "exited"
    /\ config.database_configured
    /\ weights = SkewedWeights
    /\ exit_code = Some(1)
    /\ ~run_worked
    /\ signal_history # {}

\* C24: the multiplier the macro pipeline computed in a run is the one the
\* scoring engine applied to every company scored in that run
C24_RunModifierApplied ==
    pcR = "done" =>
        \A i \in 1..Len(results) :
            results[i].macro_modifier = pipeline_results.macro_modifier

FormulaProduct ==
    (signals.expansion * weights.expansion
     + signals.distress * weights.distress
     + signals.job_velocity * weights.job_velocity
     + signals.sentiment * weights.sentiment
     + signals.market_tightness * weights.market_tightness
     + signals.turnover * weights.macro) * signals.macro_modifier

FormulaFinal ==
    IF FormulaProduct < 0 THEN 0
    ELSE IF FormulaProduct > 1000000 THEN 1000000
    ELSE FormulaProduct

Scored == pcS \in {"scored", "saved"}

IsExampleRun == signals = ExampleSignals /\ weights = DefaultWeights

\* the snapshot rows _save_score wrote for the scored company today
SavedRows ==
    {r \in signal_history : r.company_id = ScoredCompany /\ r.record_date = today}

\* C3 as stated: the propensity score calculate_score returns equals
\* clamp(formula * macroModifier, 0, 100) exactly (81.675 in the example).
C3_ReturnsExactFinal ==
    Scored => result.propensity_score * 1000 = FormulaFinal

\* C3 amended: the propensity score calculate_score returns is
\* clamp(formula * macroModifier, 0, 100), turnover weighted by the macro
\* weight, rounded to one decimal (within 0.05 of the clamped value); in the
\* example the base is 74.25, the final score 81.675, the returned score 81.7
\* and the tier hot.
C3_ReturnsRoundedFinal ==
    Scored =>
        /\ result.propensity_score * 1000 - FormulaFinal <= 500
        /\ FormulaFinal - result.propensity_score * 1000 <= 500
        /\ IsExampleRun =>
              /\ FormulaProduct = 7425 * 110
              /\ FormulaFinal = 816750
              /\ result.propensity_score = 817
              /\ result.score_tier = "hot"

C3_Witness ==
    pcS = "scored" /\ IsExampleRun /\ result.propensity_score = 817

\* C4: the tier is first-match-wins over >= 80 hot, >= 60 warm, >= 40 cool,
\* else cold: 80.0 hot, 79.999 warm, 60.0 warm, 40.0 cool, 39.999 cold, every
\* score in [0,100] gets exactly one of the four tiers, and calculate_score
\* classifies its clamped final score this way.
C4_TierFirstMatch ==
    /\ pcS = "classified" =>
          /\ probe.tier \in {"hot", "warm", "cool", "cold"}
          /\ (probe.tier = "hot") <=> (probe.score >= 800000)
          /\ (probe.tier = "warm") <=> (probe.score >= 600000 /\ probe.score < 800000)
          /\ (probe.tier = "cool") <=> (probe.score >= 400000 /\ probe.score < 600000)
          /\ (probe.tier = "cold") <=> (probe.score < 400000)
          /\ probe.score = 800000 => probe.tier = "hot"
          /\ probe.score = 799990 => probe.tier = "warm"
          /\ probe.score = 600000 => probe.tier = "warm"
          /\ probe.score = 400000 => probe.tier = "cool"
          /\ probe.score = 399990 => probe.tier = "cold"
    /\ Scored =>
          /\ (result.score_tier = "hot") <=> (FormulaFinal >= 800000)
          /\ (result.score_tier = "warm") <=> (FormulaFinal >= 600000 /\ FormulaFinal < 800000)
          /\ (result.score_tier = "cool") <=> (FormulaFinal >= 400000 /\ FormulaFinal < 600000)
          /\ (result.score_tier = "cold") <=> (FormulaFinal < 400000)

C4_Witness ==
    pcS = "classified" /\ probe.score = 800000 /\ probe.tier = "hot"

\* C5: the score calculate_score returns and the propensity_score _save_score
\* persists lie in [0,100]; a product above 100 gives exactly 100 and a product
\* below 0 gives exactly 0.
C5_ScoreClamped ==
    /\ Scored =>
          /\ result.propensity_score >= 0 /\ result.propensity_score <= 1000
          /\ FormulaProduct > 1000000 => result.propensity_score = 1000
          /\ FormulaProduct < 0 => result.propensity_score = 0
    /\ pcS = "saved" =>
          /\ SavedRows # {}
          /\ \A r \in SavedRows :
                /\ r.f["propensity_score"] # Null
                /\ r.f["propensity_score"][1] >= 0 /\ r.f["propensity_score"][1] <= 100
                /\ FormulaProduct > 1000000 => r.f["propensity_score"][1] = 100
                /\ FormulaProduct < 0 => r.f["propensity_score"][1] = 0

C5_Witness ==
    /\ pcS = "saved"
    /\ FormulaProduct > 1000000
    /\ \E r \in SavedRows : r.f["propensity_score"] = Some(100)

\* C13: a successful score_company call leaves, through save_signal_history, a
\* snapshot for (organization, today) that carries the six raw component
\* values and the macro modifier used in the calculation, and the score and
\* tier returned to the caller (the stored score is in points, the returned
\* one in tenths of a point).
C13_SnapshotCarriesResult ==
    pcS = "saved" =>
        \E r \in SavedRows :
            /\ r.f["expansion_score"] = Some(signals.expansion)
            /\ r.f["distress_score"] = Some(signals.distress)
            /\ r.f["sentiment_score"] = Some(signals.sentiment)
            /\ r.f["job_velocity_score"] = Some(signals.job_velocity)
            /\ r.f["turnover_score"] = Some(signals.turnover)
            /\ r.f["market_tightness_score"] = Some(signals.market_tightness)
            /\ r.f["macro_modifier"] = Some(signals.macro_modifier)
            /\ r.f["score_tier"] = Some(result.score_tier)
            /\ r.f["propensity_score"] # Null
            /\ r.f["propensity_score"][1] * 10 = result.propensity_score

\* C28: in every result of calculate_score and in every snapshot _save_score
\* writes the tier label is the classification (>= 80 hot, >= 60 warm, >= 40
\* cool, else cold) of the propensity score reported or stored alongside it,
\* also when the unrounded final score lies just below a threshold
C28_TierMatchesReportedScore ==
    /\ pcS \in {"scored", "saved"} =>
         result.score_tier = classify_tier(result.propensity_score * 1000)
    /\ pcS = "saved" =>
         \A r \in SavedRows :
            r.f["score_tier"] = Some(classify_tier(r.f["propensity_score"][1] * 10000))

\* C29: when a collector's append of a component field for (company, today)
\* and a scoring pass for the same company run concurrently, the snapshot of
\* (company, today) holds the collector's value for that field once both have
\* completed: the scoring pass never writes back the value it read before
C29_CollectorValueSurvives ==
    scorer.pc = "idle" =>
        \A i \in 1..Len(appendLog) :
            "inventory_turnover_ratio" \in DOMAIN appendLog[i].f =>
                \A r \in signal_history :
                    (r.company_id = appendLog[i].company_id
                     /\ r.record_date = appendLog[i].record_date)
                        => r.f["turnover_score"] = appendLog[i].f["turnover_score"]

====
